---- MODULE Spec2Model ----
(***************************************************************************)
(* A model of hearsay's concurrent orchestration:                          *)
(*   - review.py: clean_paper_text, process_paper,                         *)
(*                _insert_figure_descriptions                              *)
(*   - tts.py:    create_podcast, generate_audio, _synthesize_segment      *)
(*                                                                         *)
(* Text is a sequence of tokens.  A token is a record [k, n, e]: k is the  *)
(* kind of the piece of text, n a number it carries (chunk index, figure   *)
(* number), e a file extension (image references only).                    *)
(***************************************************************************)
EXTENDS Integers, Sequences, FiniteSets, TLC

\* ------------------------------------------------------------------ bounds
MaxChunks == 2
MaxImages == 3
MaxDeltas == 4
MaxScript == 3
\* create_podcast calls of one process
MaxInvocations == 2
\* _chunk_text: length of the text, and the largest threshold max_chars
MaxTextLen == 5
MaxThreshold == 3

\* ThreadPoolExecutor(max_workers=8) of process_paper
MAX_WORKERS == 8

\* a batch with more candidates than the pool has workers
PoolImages == MAX_WORKERS + 1
\* the candidates of such a batch that are kept
MaxKept == 1
\* the chunks of the text of such a paper
PoolChunks == 1

\* ThreadPoolExecutor(max_workers=1) of create_podcast
TTS_WORKERS == 1

VARIABLES
    \* ---- process_paper / clean_paper_text (review.py)
    pc,                 \* position of the thread running process_paper
    extract_figures,    \* argument of process_paper
    describe_figures,   \* argument of process_paper
    all_images,         \* paths returned by pdf_extract_figures, discovery order
    chunks,             \* number of chunks _chunk_text returned (indices 1..chunks)
    clean_pc,           \* position of the worker running clean_paper_text
    chunk_futures,      \* inner executor: future of each _clean_chunk call
    text_future,        \* pool.submit(clean_paper_text, ...)
    filter_futures,     \* future of each is_paper_figure call, by position in all_images
    figure_paths,       \* list of kept paths
    final_paths,        \* list built by the rename loop
    desc_futures,       \* future of each describe_figure call, by figure number
    figure_descriptions,\* result["figure_descriptions"], a dict in insertion order
    pool_running,       \* tasks a worker of the shared pool is executing
    pool_queue,         \* tasks waiting for a worker of the shared pool
    img_dir,            \* the image directory: path -> candidate whose bytes it holds (0: no file)
    clean_text,         \* the local clean_text once text_future.result() returned
    markdown_file,      \* content of paper.md (NoFile: not written)
    attempts,           \* number of submit calls made so far for each unit of work
    \* ---- create_podcast / generate_audio (tts.py)
    entry,              \* the function called: "create_podcast" or "generate_audio"
    tts_pc,             \* position of the thread running it
    pipeline_loaded,    \* the module global _pipeline is not None
    script,             \* generate_audio: the argument; create_podcast: the joined script
    paragraphs,         \* generate_audio: the list of paragraphs
    stream_left,        \* create_podcast: deltas the stream may still deliver
    buffer,             \* create_podcast: the local buffer
    para_idx,           \* create_podcast: the local para_idx
    script_parts,       \* create_podcast: the list script_parts
    tts_futures,        \* create_podcast: the list tts_futures
    collected,          \* number of futures (paragraphs) the collecting loop has handled
    audio_segments,     \* the list audio_segments
    script_file,        \* content of script.txt (NoFile: not written)
    audio_file,         \* content of the mp3 file (NoFile: not written)
    tts_error,          \* the exception the function raised ("": none)
    streamed,           \* create_podcast: the text the stream has delivered so far
    invocation,         \* number of the create_podcast call of this process
    abandoned,          \* executors of earlier calls that were never shut down while
                        \* jobs were left: the jobs each of them still holds
    no_audio,           \* cli.py: the flag --no-audio
    constructions,      \* number of KPipeline objects constructed in this process
    \* ---- _chunk_text (review.py)
    chunker,            \* the arguments and the locals of a _chunk_text call
    \* ---- parse_dialogue (paper_podcast/tts.py)
    dialogue            \* the argument and the locals of a parse_dialogue call

paperVars == << pc, extract_figures, describe_figures, all_images, chunks, clean_pc,
                chunk_futures, text_future, filter_futures, figure_paths, final_paths,
                desc_futures, figure_descriptions, pool_running, pool_queue, img_dir,
                clean_text, markdown_file, attempts >>

ttsVars == << entry, tts_pc, pipeline_loaded, script, paragraphs, stream_left, buffer,
              para_idx, script_parts, tts_futures, collected, audio_segments,
              script_file, audio_file, tts_error, streamed, invocation, abandoned,
              no_audio, constructions >>

\* what outlives a call: the call counter and the executors left behind
sessionVars == << invocation, abandoned, constructions >>

\* the calls of the pure functions
chunkVars == << chunker, dialogue >>

vars == << paperVars, ttsVars, chunkVars >>

\* ------------------------------------------------------------------ tokens
Tok(k, n) == [k |-> k, n |-> n, e |-> ""]

BlankLine == Tok("blank_line", 0)
\* the text "## References"
References == Tok("references", 0)
\* the text "## Figures" that opens figures_section
FiguresHeader == Tok("figures_header", 0)
\* "### Figure n"
Heading(n) == Tok("heading", n)
\* "![Figure n](img/<name>)": the name is figure_<p.n>.<p.ext>
ImageRef(p) == [k |-> "image", n |-> p.n, e |-> p.ext]
\* the body of chunk i as the cleaning call returns it
Body(i) == Tok("body", i)
\* what describe_figure returns when asked about figure number i
DescriptionOf(i) == Tok("description", i)
\* f"[Figure {i}]"
Placeholder(i) == Tok("placeholder", i)

NoFile == << Tok("no_file", 0) >>
\* script.txt does not exist (its content is a string)
NoScript == << "no_file" >>

\* ------------------------------------------------------------------ paths
Exts == {"png"}
\* the suffixes of a batch of candidates with different image formats
MixedExts == {"png", "jpg"}
Path(n, ext) == [n |-> n, ext |-> ext]
MaxPath == IF PoolImages > MaxImages THEN PoolImages ELSE MaxImages
Paths == [n : 1..MaxPath, ext : Exts \cup MixedExts]

\* ------------------------------------------------------------------ futures
Pending == [st |-> "pending", val |-> << >>]
Running == [st |-> "running", val |-> << >>]
Returned(v) == [st |-> "ok", val |-> v]
Raised(e) == [st |-> "err", val |-> e]
IsDone(f) == f.st \in {"ok", "err"}

\* ------------------------------------------------------------------ the shared pool
Task(kind, id) == [kind |-> kind, id |-> id]
TextTask == Task("text", 0)

\* mutant: the pool starts a worker for every task
PoolSubmitUnbounded(ps, t) == [running |-> ps.running \cup {t}, queue |-> ps.queue]

\* pool.submit: a worker takes the task when one of the max_workers is free
PoolSubmit(ps, t) ==
    IF Cardinality(ps.running) < MAX_WORKERS
    THEN [running |-> ps.running \cup {t}, queue |-> ps.queue]
    ELSE [running |-> ps.running, queue |-> Append(ps.queue, t)]

RECURSIVE PoolSubmitAll(_, _)
PoolSubmitAll(ps, ts) ==
    IF ts = << >> THEN ps ELSE PoolSubmitAll(PoolSubmit(ps, Head(ts)), Tail(ts))

\* mutant: the worker of a task that ends takes no queued task
PoolReleaseIdle(ps, t) == [running |-> ps.running \ {t}, queue |-> ps.queue]

\* a task ends: its worker takes the next queued task
PoolRelease(ps, t) ==
    IF ps.queue = << >>
    THEN [running |-> ps.running \ {t}, queue |-> << >>]
    ELSE [running |-> (ps.running \ {t}) \cup {Head(ps.queue)}, queue |-> Tail(ps.queue)]

Pool == [running |-> pool_running, queue |-> pool_queue]

\* the units of work a run can submit: the cleaning of the text and of a chunk, the
\* classification of a candidate, the description of a figure
Units ==
    {TextTask} \cup { Task("chunk", i) : i \in 1..MaxChunks }
               \cup { Task(kind, n) : kind \in {"filter", "desc"}, n \in 1..MaxPath }

\* one submit call for every element of the list ts
Submitted(att, ts) ==
    [u \in DOMAIN att |-> att[u] + Cardinality({ j \in 1..Len(ts) : ts[j] = u })]

\* ------------------------------------------------------------------ clean_paper_text
\* "\n\n".join(results)
RECURSIVE Join(_)
Join(results) ==
    IF results = << >> THEN << >>
    ELSE IF Len(results) = 1 THEN Head(results)
    ELSE Head(results) \o << BlankLine >> \o Join(Tail(results))

\* results = [f.result() for f in futures]: the futures are read in list order; the
\* first one that raised ends the comprehension with its exception
RECURSIVE ResultsFrom(_, _, _)
ResultsFrom(futures, i, acc) ==
    IF i > Len(futures) THEN Returned(acc)
    ELSE IF futures[i].st = "err" THEN Raised(futures[i].val)
    ELSE ResultsFrom(futures, i + 1, Append(acc, futures[i].val))

\* mutant: the results are gathered from the last future to the first
CollectResultsReversed(futures) ==
    ResultsFrom([j \in 1..Len(futures) |-> futures[Len(futures) + 1 - j]], 1, << >>)

\* mutant: of several failed futures the last one gives the exception
CollectResultsLastError(futures) ==
    LET bad == { i \in 1..Len(futures) : futures[i].st = "err" }
    IN  IF bad = {} THEN ResultsFrom(futures, 1, << >>)
        ELSE Raised(futures[CHOOSE i \in bad : \A j \in bad : j <= i].val)

CollectResults(futures) == ResultsFrom(futures, 1, << >>)

\* mutant: a failed chunk is dropped and the rest is joined
RECURSIVE SuccessfulResults(_)
SuccessfulResults(futures) ==
    IF futures = << >> THEN << >>
    ELSE (IF Head(futures).st = "ok" THEN << Head(futures).val >> ELSE << >>)
         \o SuccessfulResults(Tail(futures))

CleanOutcomeSkipFailed(futures) == Returned(Join(SuccessfulResults(futures)))

\* the outcome of clean_paper_text once every chunk call has ended
CleanOutcome(futures) ==
    LET r == CollectResults(futures)
    IN  IF r.st = "ok" THEN Returned(Join(r.val)) ELSE r

\* what the cleaning call may return for chunk i: its body, with or without a
\* "## References" heading after it
CleanedTexts(i) == { << Body(i) >>, << Body(i), BlankLine, References >> }

\* the exception of the cleaning call of chunk i
ChunkError(i) == << Tok("chunk_error", i) >>

\* ------------------------------------------------------------------ figures
\* all_images.index(p)
IndexOf(s, x) == CHOOSE i \in 1..Len(s) : s[i] = x /\ \A j \in 1..(i - 1) : s[j] # x

\* insert x into the sorted list s, after the elements whose key is not larger
RECURSIVE InsertByIndex(_, _, _)
InsertByIndex(s, x, all) ==
    IF s = << >> THEN << x >>
    ELSE IF IndexOf(all, x) < IndexOf(all, Head(s)) THEN << x >> \o s
    ELSE << Head(s) >> \o InsertByIndex(Tail(s), x, all)

\* mutant: the list is left in the order the classifications ended
KeepCompletionOrder(s, all) == s

\* figure_paths.sort(key=lambda p: all_images.index(p))
RECURSIVE SortByIndex(_, _)
SortByIndex(s, all) ==
    IF s = << >> THEN << >>
    ELSE InsertByIndex(SortByIndex(Tail(s), all), Head(s), all)

\* mutant: the numbering starts at 2
NewPathFromTwo(i, fig_path) == Path(i + 1, fig_path.ext)

\* new_path = fig_path.parent / f"figure_{i}{fig_path.suffix}"
NewPath(i, fig_path) == Path(i, fig_path.ext)

\* Path.rename: the file moves to dst, replacing what dst held
RenameFile(dir, src, dst) == [dir EXCEPT ![dst] = dir[src], ![src] = 0]

\* mutant: the file of an artifact is left in the directory
UnlinkNothing(dir, p) == dir

\* Path.unlink
Unlink(dir, p) == [dir EXCEPT ![p] = 0]

\* d[key] = val on a dict kept in insertion order
DictSet(d, key, val) ==
    IF \E j \in 1..Len(d) : d[j].key = key
    THEN [j \in 1..Len(d) |-> IF d[j].key = key THEN [key |-> key, val |-> val] ELSE d[j]]
    ELSE Append(d, [key |-> key, val |-> val])

\* ------------------------------------------------------------------ _insert_figure_descriptions
\* the blocks of entries i.. of descriptions.items(), numbered by enumerate(..., 1)
RECURSIVE FigureBlocks(_, _, _)
FigureBlocks(descriptions, paths, i) ==
    IF i > Len(descriptions) THEN << >>
    ELSE (IF paths # << >> /\ i <= Len(paths)
          THEN << Heading(i), ImageRef(paths[i]), descriptions[i].val >>
          ELSE << Heading(i), descriptions[i].val >>)
         \o FigureBlocks(descriptions, paths, i + 1)

FiguresSection(descriptions, paths) ==
    << BlankLine, FiguresHeader >> \o FigureBlocks(descriptions, paths, 1)

\* markdown.replace(old, new): every occurrence of the token old
RECURSIVE Replace(_, _, _)
Replace(markdown, old, new) ==
    IF markdown = << >> THEN << >>
    ELSE (IF Head(markdown) = old THEN new ELSE << Head(markdown) >>)
         \o Replace(Tail(markdown), old, new)

Contains(markdown, tok) == \E j \in 1..Len(markdown) : markdown[j] = tok

InsertFigureDescriptions(markdown, descriptions, paths) ==
    LET figures_section == FiguresSection(descriptions, paths)
    IN  IF Contains(markdown, References)
        THEN Replace(markdown, References, figures_section \o << References >>)
        ELSE markdown \o figures_section

\* ------------------------------------------------------------------ process_paper
NoFutures == << >>

PaperInit ==
    /\ pc = "start"
    /\ extract_figures \in BOOLEAN
    /\ describe_figures \in BOOLEAN
    /\ all_images = << >>
    /\ chunks = 0
    /\ clean_pc = "idle"
    /\ chunk_futures = NoFutures
    /\ text_future = [st |-> "none", val |-> << >>]
    /\ filter_futures = NoFutures
    /\ figure_paths = << >>
    /\ final_paths = << >>
    /\ desc_futures = NoFutures
    /\ figure_descriptions = << >>
    /\ pool_running = {}
    /\ pool_queue = << >>
    /\ img_dir = [p \in Paths |-> 0]
    /\ clean_text = << >>
    /\ markdown_file = NoFile
    /\ attempts = [u \in Units |-> 0]

\* lines 266-273: the candidates are extracted into img_dir, in discovery order.
\* Candidate p is written as figure_<p>.<ext>.
ExtractedPath(p, ext) == Path(p, ext)

ExtractFigures ==
    /\ pc = "start"
    /\ pc' = "pool"
    /\ IF extract_figures
       THEN \E n \in 0..MaxImages : \E ext \in [1..n -> Exts] :
              /\ all_images' = [p \in 1..n |-> ExtractedPath(p, ext[p])]
              /\ img_dir' = [q \in Paths |->
                               IF \E p \in 1..n : q = ExtractedPath(p, ext[p])
                               THEN q.n ELSE 0]
       ELSE UNCHANGED << all_images, img_dir >>
    /\ UNCHANGED << ttsVars, chunkVars, attempts, extract_figures, describe_figures, chunks, clean_pc, chunk_futures,
                    text_future, filter_futures, figure_paths, final_paths, desc_futures,
                    figure_descriptions, pool_running, pool_queue, clean_text,
                    markdown_file >>

\* lines 270-273 for a paper whose candidates have different suffixes
ExtractMixed ==
    /\ pc = "start"
    /\ pc' = "pool"
    /\ \E n \in 1..MaxImages : \E ext \in [1..n -> MixedExts] :
         /\ all_images' = [p \in 1..n |-> ExtractedPath(p, ext[p])]
         /\ img_dir' = [q \in Paths |->
                          IF \E p \in 1..n : q = ExtractedPath(p, ext[p])
                          THEN q.n ELSE 0]
    /\ UNCHANGED << ttsVars, chunkVars, attempts, extract_figures, describe_figures, chunks, clean_pc, chunk_futures,
                    text_future, filter_futures, figure_paths, final_paths, desc_futures,
                    figure_descriptions, pool_running, pool_queue, clean_text,
                    markdown_file >>

\* lines 270-273 for a paper with PoolImages candidates
ExtractMany ==
    /\ pc = "start"
    /\ pc' = "pool"
    /\ all_images' = [p \in 1..PoolImages |-> ExtractedPath(p, "png")]
    /\ img_dir' = [q \in Paths |->
                     IF \E p \in 1..PoolImages : q = ExtractedPath(p, "png")
                     THEN q.n ELSE 0]
    /\ UNCHANGED << ttsVars, chunkVars, attempts, extract_figures, describe_figures, chunks, clean_pc,
                    chunk_futures, text_future, filter_futures, figure_paths, final_paths,
                    desc_futures, figure_descriptions, pool_running, pool_queue, clean_text,
                    markdown_file >>

\* the tasks of the dict comprehension of lines 285-288, in submission order
FilterTasks(images) == [p \in 1..Len(images) |-> Task("filter", p)]

\* lines 279-288: the pool is created, clean_paper_text and every is_paper_figure
\* call are submitted
StartPool ==
    /\ pc = "pool"
    /\ LET ps == PoolSubmitAll(PoolSubmit(Pool, TextTask), FilterTasks(all_images))
       IN  /\ pool_running' = ps.running
           /\ pool_queue' = ps.queue
    /\ attempts' = Submitted(attempts, << TextTask >> \o FilterTasks(all_images))
    /\ text_future' = Pending
    /\ filter_futures' = [p \in 1..Len(all_images) |-> Pending]
    /\ pc' = IF all_images # << >> THEN "filter" ELSE "describe"
    /\ UNCHANGED << ttsVars, chunkVars, extract_figures, describe_figures, all_images, chunks, clean_pc,
                    chunk_futures, figure_paths, final_paths, desc_futures,
                    figure_descriptions, img_dir, clean_text, markdown_file >>

\* mutant: every chunk is submitted a second time
ChunkTasksTwice(n) == [i \in 1..(2 * n) |-> Task("chunk", ((i - 1) % n) + 1)]

\* the tasks of the list comprehension of lines 208-212, in submission order
ChunkTasks(n) == [i \in 1..n |-> Task("chunk", i)]

\* clean_paper_text lines 204-212, on a worker of the shared pool: the text is
\* chunked and every chunk is submitted to an executor of len(chunks) workers
CleanSubmit ==
    /\ TextTask \in pool_running
    /\ clean_pc = "idle"
    /\ \E n \in 1..MaxChunks :
         /\ chunks' = n
         /\ chunk_futures' = [i \in 1..n |-> Running]
         /\ attempts' = Submitted(attempts, ChunkTasks(n))
    /\ clean_pc' = "collecting"
    /\ UNCHANGED << ttsVars, chunkVars, pc, extract_figures, describe_figures, all_images, text_future,
                    filter_futures, figure_paths, final_paths, desc_futures,
                    figure_descriptions, pool_running, pool_queue, img_dir, clean_text,
                    markdown_file >>

\* a _clean_chunk call returns
ChunkReturns(i) ==
    /\ clean_pc = "collecting"
    /\ i \in 1..chunks
    /\ chunk_futures[i].st = "running"
    /\ \E t \in CleanedTexts(i) :
         chunk_futures' = [chunk_futures EXCEPT ![i] = Returned(t)]
    /\ UNCHANGED << ttsVars, chunkVars, attempts, pc, extract_figures, describe_figures, all_images, chunks, clean_pc,
                    text_future, filter_futures, figure_paths, final_paths, desc_futures,
                    figure_descriptions, pool_running, pool_queue, img_dir, clean_text,
                    markdown_file >>

\* a _clean_chunk call raises
ChunkRaises(i) ==
    /\ clean_pc = "collecting"
    /\ i \in 1..chunks
    /\ chunk_futures[i].st = "running"
    /\ chunk_futures' = [chunk_futures EXCEPT ![i] = Raised(ChunkError(i))]
    /\ UNCHANGED << ttsVars, chunkVars, attempts, pc, extract_figures, describe_figures, all_images, chunks, clean_pc,
                    text_future, filter_futures, figure_paths, final_paths, desc_futures,
                    figure_descriptions, pool_running, pool_queue, img_dir, clean_text,
                    markdown_file >>

\* mutant: the exception leaves clean_paper_text as soon as f.result() has raised,
\* without waiting for the chunk calls that are still running
CleanFinishAtFirstError ==
    /\ clean_pc = "collecting"
    /\ \/ \A i \in 1..chunks : IsDone(chunk_futures[i])
       \/ \E i \in 1..chunks :
              /\ chunk_futures[i].st = "err"
              /\ \A j \in 1..(i - 1) : chunk_futures[j].st = "ok"
    /\ text_future' = CleanOutcome(chunk_futures)
    /\ clean_pc' = "ended"
    /\ LET ps == PoolRelease(Pool, TextTask)
       IN  /\ pool_running' = ps.running
           /\ pool_queue' = ps.queue
    /\ UNCHANGED << ttsVars, chunkVars, attempts, pc, extract_figures, describe_figures, all_images, chunks,
                    chunk_futures, filter_futures, figure_paths, final_paths,
                    desc_futures, figure_descriptions, img_dir, clean_text,
                    markdown_file >>

\* lines 213-215: the results are read in index order; leaving the with block waits
\* for every chunk call, then clean_paper_text returns the joined text or raises
CleanFinish ==
    /\ clean_pc = "collecting"
    /\ \A i \in 1..chunks : IsDone(chunk_futures[i])
    /\ text_future' = CleanOutcome(chunk_futures)
    /\ clean_pc' = "ended"
    /\ LET ps == PoolRelease(Pool, TextTask)
       IN  /\ pool_running' = ps.running
           /\ pool_queue' = ps.queue
    /\ UNCHANGED << ttsVars, chunkVars, attempts, pc, extract_figures, describe_figures, all_images, chunks,
                    chunk_futures, filter_futures, figure_paths, final_paths,
                    desc_futures, figure_descriptions, img_dir, clean_text,
                    markdown_file >>

\* the exception of an is_paper_figure call
FilterError == "classification_error"

\* mutant: a candidate whose classification raised is deleted like an artifact
HandleVerdictFailClosed(paths, dir, img_path, f) ==
    IF f.st = "ok" /\ f.val
    THEN [figure_paths |-> Append(paths, img_path), img_dir |-> dir]
    ELSE [figure_paths |-> paths, img_dir |-> Unlink(dir, img_path)]

\* lines 292-300, the body of the as_completed loop, for the future of candidate p
\* that ended with outcome f
HandleVerdict(paths, dir, img_path, f) ==
    IF f.st = "ok" /\ ~f.val
    THEN [figure_paths |-> paths, img_dir |-> Unlink(dir, img_path)]
    ELSE [figure_paths |-> Append(paths, img_path), img_dir |-> dir]

\* lines 290-300: an is_paper_figure call ends and the as_completed loop handles it
FilterResult(p, f) ==
    /\ pc = "filter"
    /\ p \in 1..Len(all_images)
    /\ filter_futures[p].st = "pending"
    /\ Task("filter", p) \in pool_running
    /\ filter_futures' = [filter_futures EXCEPT ![p] = f]
    /\ LET ps == PoolRelease(Pool, Task("filter", p))
           h == HandleVerdict(figure_paths, img_dir, all_images[p], f)
       IN  /\ pool_running' = ps.running
           /\ pool_queue' = ps.queue
           /\ figure_paths' = h.figure_paths
           /\ img_dir' = h.img_dir
    /\ UNCHANGED << ttsVars, chunkVars, attempts, pc, extract_figures, describe_figures, all_images, chunks, clean_pc,
                    chunk_futures, text_future, final_paths, desc_futures,
                    figure_descriptions, clean_text, markdown_file >>

FilterReturns(p) == \E b \in BOOLEAN : FilterResult(p, Returned(b))

FilterRaises(p) == FilterResult(p, Raised(FilterError))

\* mutant: the loop over the classifications is left after the first result
AsCompletedFirstOnly(futures) == \E p \in 1..Len(futures) : IsDone(futures[p])

\* "for future in as_completed(filter_futures)" (line 290) has ended: as_completed
\* has yielded every future of the dict
AsCompletedExhausted(futures) == \A p \in 1..Len(futures) : IsDone(futures[p])

\* line 303, once as_completed has yielded every future
SortFigures ==
    /\ pc = "filter"
    /\ AsCompletedExhausted(filter_futures)
    /\ figure_paths' = SortByIndex(figure_paths, all_images)
    /\ final_paths' = << >>
    /\ pc' = "rename"
    /\ UNCHANGED << ttsVars, chunkVars, attempts, extract_figures, describe_figures, all_images, chunks, clean_pc,
                    chunk_futures, text_future, filter_futures, desc_futures,
                    figure_descriptions, pool_running, pool_queue, img_dir, clean_text,
                    markdown_file >>

\* lines 305-310: one iteration of the rename loop
RenameStep ==
    /\ pc = "rename"
    /\ Len(final_paths) < Len(figure_paths)
    /\ LET i == Len(final_paths) + 1
           fig_path == figure_paths[i]
           new_path == NewPath(i, fig_path)
       IN  /\ img_dir' = IF fig_path # new_path
                         THEN RenameFile(img_dir, fig_path, new_path)
                         ELSE img_dir
           /\ final_paths' = Append(final_paths, new_path)
    /\ UNCHANGED << ttsVars, chunkVars, attempts, pc, extract_figures, describe_figures, all_images, chunks, clean_pc,
                    chunk_futures, text_future, filter_futures, figure_paths,
                    desc_futures, figure_descriptions, pool_running, pool_queue,
                    clean_text, markdown_file >>

\* line 310: fig_path.rename(new_path) raises OSError; nothing in process_paper
\* catches it, the files renamed so far keep their new names
RenameRaises ==
    /\ pc = "rename"
    /\ Len(final_paths) < Len(figure_paths)
    /\ LET i == Len(final_paths) + 1
       IN  figure_paths[i] # NewPath(i, figure_paths[i])
    /\ pc' = "rename_error"
    /\ UNCHANGED << ttsVars, chunkVars, attempts, extract_figures, describe_figures, all_images, chunks, clean_pc,
                    chunk_futures, text_future, filter_futures, figure_paths, final_paths,
                    desc_futures, figure_descriptions, pool_running, pool_queue, img_dir,
                    clean_text, markdown_file >>

\* the OSError leaves the with block of line 279: the pool is shut down, which
\* waits for the tasks still running, then process_paper raises the OSError
LeavePoolRaising ==
    /\ pc = "rename_error"
    /\ pool_running = {}
    /\ pc' = "failed"
    /\ UNCHANGED << ttsVars, chunkVars, attempts, extract_figures, describe_figures, all_images, chunks, clean_pc,
                    chunk_futures, text_future, filter_futures, figure_paths, final_paths,
                    desc_futures, figure_descriptions, pool_running, pool_queue, img_dir,
                    clean_text, markdown_file >>

\* lines 311-313
RenameDone ==
    /\ pc = "rename"
    /\ Len(final_paths) = Len(figure_paths)
    /\ figure_paths' = final_paths
    /\ pc' = "describe"
    /\ UNCHANGED << ttsVars, chunkVars, attempts, extract_figures, describe_figures, all_images, chunks, clean_pc,
                    chunk_futures, text_future, filter_futures, final_paths,
                    desc_futures, figure_descriptions, pool_running, pool_queue, img_dir,
                    clean_text, markdown_file >>

\* the tasks of the dict comprehension of lines 318-321, in submission order
DescTasks(paths) == [i \in 1..Len(paths) |-> Task("desc", i)]

\* lines 316-321: every describe_figure call is submitted
DescribeSubmit ==
    /\ pc = "describe"
    /\ pc' = "descriptions"
    /\ IF describe_figures /\ figure_paths # << >>
       THEN /\ desc_futures' = [i \in 1..Len(figure_paths) |-> Pending]
            /\ attempts' = Submitted(attempts, DescTasks(figure_paths))
            /\ LET ps == PoolSubmitAll(Pool, DescTasks(figure_paths))
               IN  /\ pool_running' = ps.running
                   /\ pool_queue' = ps.queue
       ELSE UNCHANGED << desc_futures, pool_running, pool_queue, attempts >>
    /\ UNCHANGED << ttsVars, chunkVars, extract_figures, describe_figures, all_images, chunks, clean_pc,
                    chunk_futures, text_future, filter_futures, figure_paths,
                    final_paths, figure_descriptions, img_dir, clean_text,
                    markdown_file >>

\* the exception of a describe_figure call
DescError == << Tok("description_error", 0) >>

\* f"figure_{i}"
FigureKey(i) == i

\* mutant: nothing is recorded for a description call that raised
RecordDescriptionSkipFailed(descriptions, i, f) ==
    IF f.st = "ok" THEN DictSet(descriptions, FigureKey(i), f.val) ELSE descriptions

\* lines 323-329, the body of the as_completed loop, for the future of figure i
RecordDescription(descriptions, i, f) ==
    IF f.st = "ok"
    THEN DictSet(descriptions, FigureKey(i), f.val)
    ELSE DictSet(descriptions, FigureKey(i), Placeholder(i))

\* lines 322-329: a describe_figure call ends and the as_completed loop handles it
DescResult(i, f) ==
    /\ pc = "descriptions"
    /\ i \in 1..Len(desc_futures)
    /\ desc_futures[i].st = "pending"
    /\ Task("desc", i) \in pool_running
    /\ desc_futures' = [desc_futures EXCEPT ![i] = f]
    /\ LET ps == PoolRelease(Pool, Task("desc", i))
       IN  /\ pool_running' = ps.running
           /\ pool_queue' = ps.queue
    /\ figure_descriptions' = RecordDescription(figure_descriptions, i, f)
    /\ UNCHANGED << ttsVars, chunkVars, attempts, pc, extract_figures, describe_figures, all_images, chunks, clean_pc,
                    chunk_futures, text_future, filter_futures, figure_paths,
                    final_paths, img_dir, clean_text, markdown_file >>

DescReturns(i) == DescResult(i, Returned(DescriptionOf(i)))

DescRaises(i) == DescResult(i, Raised(DescError))

\* line 332: text_future.result() returns the cleaned text
TextReturns ==
    /\ pc = "descriptions"
    /\ \A i \in 1..Len(desc_futures) : IsDone(desc_futures[i])
    /\ text_future.st = "ok"
    /\ clean_text' = text_future.val
    /\ pc' = "insert"
    /\ UNCHANGED << ttsVars, chunkVars, attempts, extract_figures, describe_figures, all_images, chunks, clean_pc,
                    chunk_futures, text_future, filter_futures, figure_paths,
                    final_paths, desc_futures, figure_descriptions, pool_running,
                    pool_queue, img_dir, markdown_file >>

\* mutant: the failure of the cleaning is raised as soon as it is known, wherever
\* the image batch is
TextRaisesAtOnce ==
    /\ pc \in {"filter", "sort", "rename", "describe", "descriptions"}
    /\ text_future.st = "err"
    /\ pc' = "raised"
    /\ UNCHANGED << ttsVars, chunkVars, attempts, extract_figures, describe_figures, all_images, chunks, clean_pc,
                    chunk_futures, text_future, filter_futures, figure_paths,
                    final_paths, desc_futures, figure_descriptions, pool_running,
                    pool_queue, img_dir, clean_text, markdown_file >>

\* line 332: text_future.result() raises, and so does process_paper
TextRaises ==
    /\ pc = "descriptions"
    /\ \A i \in 1..Len(desc_futures) : IsDone(desc_futures[i])
    /\ text_future.st = "err"
    /\ pc' = "raised"
    /\ UNCHANGED << ttsVars, chunkVars, attempts, extract_figures, describe_figures, all_images, chunks, clean_pc,
                    chunk_futures, text_future, filter_futures, figure_paths,
                    final_paths, desc_futures, figure_descriptions, pool_running,
                    pool_queue, img_dir, clean_text, markdown_file >>

\* lines 336-337
AnnotatedText(markdown, descriptions, paths) ==
    IF descriptions # << >>
    THEN InsertFigureDescriptions(markdown, descriptions, paths)
    ELSE markdown

\* lines 335-346: the descriptions are inserted and paper.md is written
SaveMarkdown ==
    /\ pc = "insert"
    /\ markdown_file' = AnnotatedText(clean_text, figure_descriptions, figure_paths)
    /\ pc' = "done"
    /\ UNCHANGED << ttsVars, chunkVars, attempts, extract_figures, describe_figures, all_images, chunks, clean_pc,
                    chunk_futures, text_future, filter_futures, figure_paths,
                    final_paths, desc_futures, figure_descriptions, pool_running,
                    pool_queue, img_dir, clean_text >>

\* ------------------------------------------------------------------ narration text
\* A string is a sequence of characters.
Newline == "\n"
Boundary == << Newline, Newline >>

\* str.strip() removes leading and trailing whitespace
IsSpace(c) == c \in {" ", Newline}

RECURSIVE LStrip(_)
LStrip(s) == IF s # << >> /\ IsSpace(Head(s)) THEN LStrip(Tail(s)) ELSE s

RECURSIVE RStrip(_)
RStrip(s) ==
    IF s # << >> /\ IsSpace(s[Len(s)]) THEN RStrip(SubSeq(s, 1, Len(s) - 1)) ELSE s

Strip(s) == RStrip(LStrip(s))

\* "\n\n" in s
HasBoundary(s) == \E i \in 1..(Len(s) - 1) : s[i] = Newline /\ s[i + 1] = Newline

FirstBoundary(s) ==
    CHOOSE i \in 1..(Len(s) - 1) :
        /\ s[i] = Newline /\ s[i + 1] = Newline
        /\ \A j \in 1..(i - 1) : ~(s[j] = Newline /\ s[j + 1] = Newline)

\* s.split("\n\n", 1) of a string that holds a boundary
SplitOnce(s) ==
    LET i == FirstBoundary(s)
    IN  [paragraph |-> SubSeq(s, 1, i - 1), buffer |-> SubSeq(s, i + 2, Len(s))]

\* s.split("\n\n")
RECURSIVE Split(_)
Split(s) ==
    IF HasBoundary(s)
    THEN << SplitOnce(s).paragraph >> \o Split(SplitOnce(s).buffer)
    ELSE << s >>

\* [p.strip() for p in pieces if p.strip()]
RECURSIVE StripNonEmpty(_)
StripNonEmpty(pieces) ==
    IF pieces = << >> THEN << >>
    ELSE (IF Strip(Head(pieces)) # << >> THEN << Strip(Head(pieces)) >> ELSE << >>)
         \o StripNonEmpty(Tail(pieces))

\* "\n\n".join(parts)
RECURSIVE JoinParts(_)
JoinParts(parts) ==
    IF parts = << >> THEN << >>
    ELSE IF Len(parts) = 1 THEN Head(parts)
    ELSE Head(parts) \o Boundary \o JoinParts(Tail(parts))

\* the deltas the stream delivers
Deltas == { << "a" >>, << Newline >>, << " " >>, << "a", Newline, Newline >>,
            << Newline, Newline, "a", Newline, Newline >> }

RECURSIVE Concat(_)
Concat(ss) == IF ss = << >> THEN << >> ELSE Head(ss) \o Concat(Tail(ss))

\* the scripts generate_audio is called with
Scripts == UNION { { Concat(ds) : ds \in [1..n -> Deltas] } : n \in 0..MaxScript }

\* ------------------------------------------------------------------ audio
\* the samples Kokoro yields for the paragraph of job k
Audio(k) == Tok("audio", k)
\* pause = np.zeros(int(SAMPLE_RATE * 0.4))
Pause == << Tok("pause", 0) >>
\* np.array([])
EmptySegment == << >>

\* the exception a synthesis call raises
SynthError == "synthesis_error"
\* ValueError("No audio was generated")
NoAudioError == "No audio was generated"

\* mutant: the pause is appended for an empty segment too
AppendSegmentAlwaysPause(segments, segment) == segments \o << segment, Pause >>

\* lines 214-216 and 332-334
AppendSegment(segments, segment) ==
    IF Len(segment) > 0 THEN segments \o << segment, Pause >> ELSE segments

\* mutant: the newest future is put in front of the list
PrependFuture(futures, f) == << f >> \o futures

\* future = executor.submit(...); tts_futures.append(future)
AppendFuture(futures, f) == Append(futures, f)

\* mutant: the paragraph is submitted for synthesis and left out of the script
SubmitParagraphUnsaved(st, text) ==
    [para_idx |-> st.para_idx + 1,
     script_parts |-> st.script_parts,
     tts_futures |-> AppendFuture(st.tts_futures,
                                  [st |-> "pending", val |-> << >>, job |-> st.para_idx + 1,
                                   text |-> text])]

\* _submit_paragraph (lines 293-300) on the locals of create_podcast; the future
\* keeps the text its job was submitted with
SubmitParagraph(st, text) ==
    [para_idx |-> st.para_idx + 1,
     script_parts |-> Append(st.script_parts, text),
     tts_futures |-> AppendFuture(st.tts_futures,
                                  [st |-> "pending", val |-> << >>, job |-> st.para_idx + 1,
                                   text |-> text])]

\* mutant: nothing is submitted while the stream delivers, the text stays in the
\* buffer until the stream ends
EmitAtStreamEnd(st) == st

\* lines 310-314: the while loop over the boundaries of the buffer
RECURSIVE EmitParagraphs(_)
EmitParagraphs(st) ==
    IF HasBoundary(st.buffer)
    THEN LET sp == SplitOnce(st.buffer)
             paragraph == Strip(sp.paragraph)
             sub == IF paragraph # << >> THEN SubmitParagraph(st, paragraph) ELSE st
         IN  EmitParagraphs([para_idx |-> sub.para_idx,
                             script_parts |-> sub.script_parts,
                             tts_futures |-> sub.tts_futures,
                             buffer |-> sp.buffer])
    ELSE st

\* mutant: what is left in the buffer at stream end is dropped
FlushNothing(st) == st

\* lines 316-318
Flush(st) ==
    IF Strip(st.buffer) # << >> THEN SubmitParagraph(st, Strip(st.buffer)) ELSE st

Locals == [para_idx |-> para_idx, script_parts |-> script_parts,
           tts_futures |-> tts_futures, buffer |-> buffer]

\* ------------------------------------------------------------------ tts.py
TtsInit ==
    /\ entry \in {"create_podcast", "generate_audio"}
    /\ tts_pc = "start"
    /\ pipeline_loaded = FALSE
    /\ script \in (IF entry = "generate_audio" THEN Scripts ELSE { << >> })
    /\ paragraphs = << >>
    /\ stream_left = IF entry = "create_podcast" THEN MaxDeltas ELSE 0
    /\ buffer = << >>
    /\ para_idx = 0
    /\ script_parts = << >>
    /\ tts_futures = << >>
    /\ collected = 0
    /\ audio_segments = << >>
    /\ script_file = NoScript
    /\ audio_file = NoFile
    /\ tts_error = ""
    /\ streamed = << >>
    /\ invocation = 1
    /\ abandoned = << >>
    /\ constructions = 0
    /\ no_audio = FALSE

\* mutant: the cached pipeline is ignored, every call constructs one
GetPipelineEveryCall ==
    /\ tts_pc = "start"
    /\ pipeline_loaded' = TRUE
    /\ constructions' = constructions + 1
    /\ tts_pc' = IF entry = "create_podcast" THEN "streaming" ELSE "split"
    /\ UNCHANGED << paperVars, chunkVars, no_audio, invocation, abandoned, streamed, entry,
                    script, paragraphs, stream_left, buffer, para_idx,
                    script_parts, tts_futures, collected, audio_segments, script_file,
                    audio_file, tts_error >>

\* _get_pipeline (lines 24-35), called at line 196 and at line 279
GetPipeline ==
    /\ tts_pc = "start"
    /\ pipeline_loaded' = TRUE
    /\ constructions' = IF pipeline_loaded THEN constructions ELSE constructions + 1
    /\ tts_pc' = IF entry = "create_podcast" THEN "streaming" ELSE "split"
    /\ UNCHANGED << paperVars, chunkVars, no_audio, invocation, abandoned, streamed, entry, script, paragraphs, stream_left, buffer, para_idx,
                    script_parts, tts_futures, collected, audio_segments, script_file,
                    audio_file, tts_error >>

\* lines 307-314: the stream delivers a delta
StreamDelta(chunk) ==
    /\ tts_pc = "streaming"
    /\ stream_left > 0
    /\ stream_left' = stream_left - 1
    /\ streamed' = streamed \o chunk
    /\ LET st == EmitParagraphs([Locals EXCEPT !.buffer = buffer \o chunk])
       IN  /\ buffer' = st.buffer
           /\ para_idx' = st.para_idx
           /\ script_parts' = st.script_parts
           /\ tts_futures' = st.tts_futures
    /\ UNCHANGED << paperVars, chunkVars, no_audio, sessionVars, entry, tts_pc, pipeline_loaded, script, paragraphs, collected,
                    audio_segments, script_file, audio_file, tts_error >>

\* lines 316-320: the stream has ended, the rest of the buffer is flushed
StreamEnd ==
    /\ tts_pc = "streaming"
    /\ LET st == Flush(Locals)
       IN  /\ para_idx' = st.para_idx
           /\ script_parts' = st.script_parts
           /\ tts_futures' = st.tts_futures
    /\ tts_pc' = "save_script"
    /\ UNCHANGED << paperVars, chunkVars, no_audio, sessionVars, streamed, entry, pipeline_loaded, script, paragraphs, stream_left, buffer,
                    collected, audio_segments, script_file, audio_file, tts_error >>

\* mutant: the collecting loop is entered without the script being written
SaveScriptSkipped ==
    /\ tts_pc = "save_script"
    /\ script' = JoinParts(script_parts)
    /\ tts_pc' = "collect"
    /\ UNCHANGED << paperVars, chunkVars, no_audio, sessionVars, streamed, entry, pipeline_loaded, paragraphs, stream_left, buffer, para_idx,
                    script_parts, tts_futures, collected, audio_segments, audio_file,
                    tts_error, script_file >>

\* lines 323-325
SaveScript ==
    /\ tts_pc = "save_script"
    /\ script' = JoinParts(script_parts)
    /\ script_file' = JoinParts(script_parts)
    /\ tts_pc' = "collect"
    /\ UNCHANGED << paperVars, chunkVars, no_audio, sessionVars, streamed, entry, pipeline_loaded, paragraphs, stream_left, buffer, para_idx,
                    script_parts, tts_futures, collected, audio_segments, audio_file,
                    tts_error >>

\* the executor's queue is first in, first out: the next job a free worker takes
NextJob(futures) ==
    CHOOSE k \in 1..Len(futures) :
        /\ futures[k].st = "pending"
        /\ \A j \in 1..(k - 1) : futures[j].st # "pending"

InFlight(futures) == { k \in 1..Len(futures) : futures[k].st = "running" }

\* mutant: the executor has a free worker for every job
WorkerAlwaysFree(futures) == TRUE

\* ThreadPoolExecutor(max_workers=1): one of the executor's workers is idle
WorkerFree(futures) == Cardinality(InFlight(futures)) < TTS_WORKERS

\* mutant: the worker thread ends after its first job and leaves the queue alone
SynthStartFirstOnly ==
    /\ \A k \in 1..Len(tts_futures) : tts_futures[k].st = "pending"
    /\ tts_futures # << >>
    /\ tts_futures' = [tts_futures EXCEPT ![NextJob(tts_futures)].st = "running"]
    /\ UNCHANGED << paperVars, chunkVars, no_audio, sessionVars, streamed, entry, tts_pc, pipeline_loaded, script, paragraphs, stream_left,
                    buffer, para_idx, script_parts, collected, audio_segments,
                    script_file, audio_file, tts_error >>

\* a worker of the executor takes the next job and calls _synthesize_segment
SynthStart ==
    /\ \E k \in 1..Len(tts_futures) : tts_futures[k].st = "pending"
    /\ WorkerFree(tts_futures)
    /\ tts_futures' = [tts_futures EXCEPT ![NextJob(tts_futures)].st = "running"]
    /\ UNCHANGED << paperVars, chunkVars, no_audio, sessionVars, streamed, entry, tts_pc, pipeline_loaded, script, paragraphs, stream_left,
                    buffer, para_idx, script_parts, collected, audio_segments,
                    script_file, audio_file, tts_error >>

\* _synthesize_segment (lines 161-173): the samples of the paragraph, or an empty
\* array when the pipeline yields nothing
SegmentsOf(job) == { << Audio(job) >>, EmptySegment }

\* the job of future k returns
SynthReturns(k) ==
    /\ k \in 1..Len(tts_futures)
    /\ tts_futures[k].st = "running"
    /\ \E segment \in SegmentsOf(tts_futures[k].job) :
         tts_futures' = [tts_futures EXCEPT ![k].st = "ok", ![k].val = segment]
    /\ UNCHANGED << paperVars, chunkVars, no_audio, sessionVars, streamed, entry, tts_pc, pipeline_loaded, script, paragraphs, stream_left,
                    buffer, para_idx, script_parts, collected, audio_segments,
                    script_file, audio_file, tts_error >>

\* the job of future k raises
SynthRaises(k) ==
    /\ k \in 1..Len(tts_futures)
    /\ tts_futures[k].st = "running"
    /\ tts_futures' = [tts_futures EXCEPT ![k].st = "err"]
    /\ UNCHANGED << paperVars, chunkVars, no_audio, sessionVars, streamed, entry, tts_pc, pipeline_loaded, script, paragraphs, stream_left,
                    buffer, para_idx, script_parts, collected, audio_segments,
                    script_file, audio_file, tts_error >>

\* the future the collecting loop of lines 330-335 reads next
NextCollected(futures, n) == n + 1

\* lines 330-335: future.result() returns, the segment is appended
CollectSegment ==
    /\ tts_pc = "collect"
    /\ collected < Len(tts_futures)
    /\ LET k == NextCollected(tts_futures, collected)
       IN  /\ tts_futures[k].st = "ok"
           /\ audio_segments' = AppendSegment(audio_segments, tts_futures[k].val)
    /\ collected' = collected + 1
    /\ UNCHANGED << paperVars, chunkVars, no_audio, sessionVars, streamed, entry, tts_pc, pipeline_loaded, script, paragraphs, stream_left,
                    buffer, para_idx, script_parts, tts_futures, script_file, audio_file,
                    tts_error >>

\* mutant: a job that raised is passed over and the loop goes on
CollectSkipsFailed ==
    /\ tts_pc = "collect"
    /\ collected < Len(tts_futures)
    /\ tts_futures[NextCollected(tts_futures, collected)].st = "err"
    /\ collected' = collected + 1
    /\ UNCHANGED << paperVars, chunkVars, no_audio, sessionVars, streamed, entry, pipeline_loaded, script, paragraphs, stream_left, buffer,
                    para_idx, script_parts, tts_futures, audio_segments,
                    script_file, audio_file, tts_pc, tts_error >>

\* line 331: future.result() raises the exception of the job
CollectRaises ==
    /\ tts_pc = "collect"
    /\ collected < Len(tts_futures)
    /\ tts_futures[NextCollected(tts_futures, collected)].st = "err"
    /\ tts_error' = SynthError
    /\ tts_pc' = "raised"
    /\ UNCHANGED << paperVars, chunkVars, no_audio, sessionVars, streamed, entry, pipeline_loaded, script, paragraphs, stream_left, buffer,
                    para_idx, script_parts, tts_futures, collected, audio_segments,
                    script_file, audio_file >>

\* np.concatenate(audio_segments)
Combined(segments) == Concat(segments)

\* mutant: the check for an empty result is missing
NoAudioUnchecked(segments) == FALSE

\* "if not audio_segments" (lines 218 and 339)
NoAudio(segments) == segments = << >>

\* lines 218-252 and 337-379: without a segment the function raises, else the mp3
\* is written
Export ==
    /\ \/ tts_pc = "collect" /\ collected = Len(tts_futures)
       \/ tts_pc = "synth" /\ collected = Len(paragraphs)
    /\ IF NoAudio(audio_segments)
       THEN /\ tts_error' = NoAudioError
            /\ tts_pc' = "raised"
            /\ UNCHANGED audio_file
       ELSE /\ audio_file' = Combined(audio_segments)
            /\ tts_pc' = "done"
            /\ UNCHANGED tts_error
    /\ UNCHANGED << paperVars, chunkVars, no_audio, sessionVars, streamed, entry, pipeline_loaded, script, paragraphs, stream_left, buffer,
                    para_idx, script_parts, tts_futures, collected, audio_segments,
                    script_file >>

\* generate_audio lines 199-201
ScriptParagraphs(s) ==
    IF StripNonEmpty(Split(s)) = << >> THEN << Strip(s) >> ELSE StripNonEmpty(Split(s))

SplitScript ==
    /\ tts_pc = "split"
    /\ paragraphs' = ScriptParagraphs(script)
    /\ tts_pc' = "synth"
    /\ UNCHANGED << paperVars, chunkVars, no_audio, sessionVars, streamed, entry, pipeline_loaded, script, stream_left, buffer, para_idx,
                    script_parts, tts_futures, collected, audio_segments, script_file,
                    audio_file, tts_error >>

\* generate_audio lines 209-216: one paragraph is synthesized and appended
SynthParagraph ==
    /\ tts_pc = "synth"
    /\ collected < Len(paragraphs)
    /\ \E segment \in SegmentsOf(collected + 1) :
         audio_segments' = AppendSegment(audio_segments, segment)
    /\ collected' = collected + 1
    /\ UNCHANGED << paperVars, chunkVars, no_audio, sessionVars, streamed, entry, tts_pc, pipeline_loaded, script, paragraphs, stream_left,
                    buffer, para_idx, script_parts, tts_futures, script_file, audio_file,
                    tts_error >>

\* generate_audio line 213: _synthesize_segment raises
SynthParagraphRaises ==
    /\ tts_pc = "synth"
    /\ collected < Len(paragraphs)
    /\ tts_error' = SynthError
    /\ tts_pc' = "raised"
    /\ UNCHANGED << paperVars, chunkVars, no_audio, sessionVars, streamed, entry, pipeline_loaded, script, paragraphs, stream_left, buffer,
                    para_idx, script_parts, tts_futures, collected, audio_segments,
                    script_file, audio_file >>

\* the jobs of an executor that have not ended
Unfinished(futures) == SelectSeq(futures, LAMBDA f : ~IsDone(f))

\* the executors left behind when a call ends: executor.shutdown (line 337) is the
\* last statement before the export and is not in a finally block, so a call that
\* raised at line 331 leaves its executor with the jobs it still holds
LeftBehind(executors, futures) ==
    IF Unfinished(futures) # << >> THEN Append(executors, Unfinished(futures))
    ELSE executors

\* create_podcast has returned or raised and the process calls it again, for another
\* output directory: lines 279-291 make new locals and a new executor; the module
\* global _pipeline stays
InvokeAgain ==
    /\ entry = "create_podcast"
    /\ tts_pc \in {"done", "raised"}
    /\ invocation < MaxInvocations
    /\ invocation' = invocation + 1
    /\ abandoned' = LeftBehind(abandoned, tts_futures)
    /\ tts_pc' = "start"
    /\ stream_left' = MaxDeltas
    /\ streamed' = << >>
    /\ buffer' = << >>
    /\ para_idx' = 0
    /\ script_parts' = << >>
    /\ tts_futures' = << >>
    /\ collected' = 0
    /\ audio_segments' = << >>
    /\ script' = << >>
    /\ script_file' = NoScript
    /\ audio_file' = NoFile
    /\ tts_error' = ""
    /\ UNCHANGED << paperVars, chunkVars, no_audio, constructions, entry, pipeline_loaded, paragraphs >>

\* the worker thread of an executor left behind takes its next queued job
AbandonedStart(e) ==
    /\ e \in 1..Len(abandoned)
    /\ \E k \in 1..Len(abandoned[e]) : abandoned[e][k].st = "pending"
    /\ WorkerFree(abandoned[e])
    /\ abandoned' = [abandoned EXCEPT ![e][NextJob(abandoned[e])].st = "running"]
    /\ UNCHANGED << paperVars, chunkVars, no_audio, constructions, invocation, streamed, entry, tts_pc, pipeline_loaded, script,
                    paragraphs, stream_left, buffer, para_idx, script_parts, tts_futures,
                    collected, audio_segments, script_file, audio_file, tts_error >>

\* the job an abandoned executor is running returns or raises; nothing reads its
\* future any more
AbandonedEnds(e) ==
    /\ e \in 1..Len(abandoned)
    /\ InFlight(abandoned[e]) # {}
    /\ abandoned' = [abandoned EXCEPT ![e] = SelectSeq(@, LAMBDA f : f.st # "running")]
    /\ UNCHANGED << paperVars, chunkVars, no_audio, constructions, invocation, streamed, entry, tts_pc, pipeline_loaded, script,
                    paragraphs, stream_left, buffer, para_idx, script_parts, tts_futures,
                    collected, audio_segments, script_file, audio_file, tts_error >>

\* ------------------------------------------------------------------ cli.py
\* the deltas of the stream of a create_podcast call made by the command line
CliDeltas == 3

\* mutant: the flag is ignored
CliEntryAlwaysPodcast(flag) == "create_podcast"

\* cli.py lines 94-106: the function step 5 of main calls
CliEntry(flag) == IF flag THEN "generate_script" ELSE "create_podcast"

\* cli.py lines 89-106: main reaches step 5 and calls generate_script or
\* create_podcast
CliMain ==
    /\ tts_pc = "idle"
    /\ entry' = CliEntry(no_audio)
    /\ tts_pc' = IF entry' = "create_podcast" THEN "start" ELSE "script"
    /\ stream_left' = IF entry' = "create_podcast" THEN CliDeltas ELSE 0
    /\ invocation' = invocation + 1
    /\ UNCHANGED << paperVars, chunkVars, no_audio, constructions, abandoned, streamed, pipeline_loaded,
                    script, paragraphs, buffer, para_idx, script_parts, tts_futures,
                    collected, audio_segments, script_file, audio_file, tts_error >>

\* generate_script (tts.py lines 105-125) and cli.py lines 94-98: the text of the
\* reply is returned and main writes it to script.txt; or the request raises
GenerateScript ==
    /\ tts_pc = "script"
    /\ \/ /\ script' \in Scripts
          /\ script_file' = script'
          /\ tts_pc' = "done"
          /\ UNCHANGED tts_error
       \/ /\ tts_error' = "api"
          /\ tts_pc' = "raised"
          /\ UNCHANGED << script, script_file >>
    /\ UNCHANGED << paperVars, chunkVars, no_audio, sessionVars, streamed, entry,
                    pipeline_loaded, paragraphs, stream_left, buffer, para_idx,
                    script_parts, tts_futures, collected, audio_segments, audio_file >>

\* ------------------------------------------------------------------ _chunk_text
\* the texts _chunk_text is called with
Texts == UNION { [1..n -> {"a", Newline}] : n \in 0..MaxTextLen }

NotChunking ==
    [pc |-> "idle", text |-> << >>, max_chars |-> 0, paragraphs |-> << >>,
     current |-> << >>, current_len |-> 0, chunks |-> << >>]

\* a call _chunk_text(text, max_chars)
ChunkTextInit ==
    \E text \in Texts, max_chars \in 1..MaxThreshold :
        chunker = [NotChunking EXCEPT !.pc = "start", !.text = text, !.max_chars = max_chars]

\* line 144: paragraphs = text.split("\n\n")
SplitParagraphs ==
    /\ chunker.pc = "start"
    /\ chunker' = [chunker EXCEPT !.pc = "loop", !.paragraphs = Split(chunker.text)]
    /\ UNCHANGED << paperVars, ttsVars, dialogue >>

\* mutant: a full chunk is discarded instead of being appended to chunks
PackDiscarding(st, para) ==
    IF st.current_len + Len(para) > st.max_chars /\ st.current # << >>
    THEN [st EXCEPT !.current = << para >>,
                    !.current_len = Len(para)]
    ELSE [st EXCEPT !.current = Append(st.current, para),
                    !.current_len = st.current_len + Len(para)]

\* lines 150-156, the body of the loop, for the paragraph para
Pack(st, para) ==
    IF st.current_len + Len(para) > st.max_chars /\ st.current # << >>
    THEN [st EXCEPT !.chunks = Append(st.chunks, JoinParts(st.current)),
                    !.current = << para >>,
                    !.current_len = Len(para)]
    ELSE [st EXCEPT !.current = Append(st.current, para),
                    !.current_len = st.current_len + Len(para)]

\* one iteration of "for para in paragraphs" (line 149)
PackParagraph ==
    /\ chunker.pc = "loop"
    /\ chunker.paragraphs # << >>
    /\ chunker' = [Pack(chunker, Head(chunker.paragraphs))
                     EXCEPT !.paragraphs = Tail(chunker.paragraphs)]
    /\ UNCHANGED << paperVars, ttsVars, dialogue >>

\* lines 158-160: the paragraphs left in current make the last chunk
LastChunk ==
    /\ chunker.pc = "loop"
    /\ chunker.paragraphs = << >>
    /\ chunker' = [chunker EXCEPT
                     !.pc = "done",
                     !.chunks = IF chunker.current # << >>
                                THEN Append(chunker.chunks, JoinParts(chunker.current))
                                ELSE chunker.chunks]
    /\ UNCHANGED << paperVars, ttsVars, dialogue >>

ChunkNext ==
    \/ SplitParagraphs
    \/ PackParagraph
    \/ LastChunk

\* ------------------------------------------------------------------ parse_dialogue
\* the number of lines of a script
MaxLines == 4

\* The lines script.split('\n') yields. A line is a sequence of pieces: a blank, a
\* word, or the text "HOST_A:", "HOST_B:", "HOST_C:".
DialogueLines ==
    { << >>, << " " >>, << "w" >>, << "HOST_A:" >>, << "HOST_B:", " " >>,
      << "HOST_A:", " ", "w" >>, << " ", "HOST_B:", "w" >>, << "w", " ", "HOST_A:" >>,
      << "HOST_C:", "w" >> }

NotParsing ==
    [pc |-> "idle", script |-> << >>, i |-> 0, lines |-> << >>, current_speaker |-> "",
     current_text |-> << >>]

\* a call parse_dialogue(script); lines 154-156
ParseInit ==
    \E n \in 0..MaxLines : \E ls \in [1..n -> DialogueLines] :
        dialogue = [NotParsing EXCEPT !.pc = "loop", !.script = ls, !.i = 1]

\* mutant: any HOST_ label is taken for a speaker
MatchAnyHost(line) ==
    IF line # << >> /\ Head(line) \in {"HOST_A:", "HOST_B:", "HOST_C:"}
    THEN [matched |-> TRUE,
          speaker |-> CASE Head(line) = "HOST_A:" -> "HOST_A"
                        [] Head(line) = "HOST_B:" -> "HOST_B"
                        [] OTHER -> "HOST_C",
          text |-> LStrip(Tail(line))]
    ELSE [matched |-> FALSE, speaker |-> "", text |-> << >>]

\* line 163: re.match(r'^(HOST_[AB]):\s*(.*)$', line) with its groups 1 and 2
MatchLabel(line) ==
    IF line # << >> /\ Head(line) \in {"HOST_A:", "HOST_B:"}
    THEN [matched |-> TRUE,
          speaker |-> IF Head(line) = "HOST_A:" THEN "HOST_A" ELSE "HOST_B",
          text |-> LStrip(Tail(line))]
    ELSE [matched |-> FALSE, speaker |-> "", text |-> << >>]

\* ' '.join(current_text)
RECURSIVE JoinText(_)
JoinText(texts) ==
    IF texts = << >> THEN << >>
    ELSE IF Len(texts) = 1 THEN Head(texts)
    ELSE Head(texts) \o << " " >> \o JoinText(Tail(texts))

\* lines 165-166 and 172-173: "if current_speaker and current_text: lines.append(..)"
FlushSpeaker(st) ==
    IF st.current_speaker # "" /\ st.current_text # << >>
    THEN Append(st.lines, [speaker |-> st.current_speaker, text |-> JoinText(st.current_text)])
    ELSE st.lines

\* lines 158-170: one iteration of the loop over the lines
ParseLine ==
    /\ dialogue.pc = "loop"
    /\ dialogue.i <= Len(dialogue.script)
    /\ LET line == Strip(dialogue.script[dialogue.i])
           match == MatchLabel(line)
           st == [dialogue EXCEPT !.i = dialogue.i + 1]
       IN  dialogue' =
               IF line = << >> THEN st
               ELSE IF match.matched
               THEN [st EXCEPT !.lines = FlushSpeaker(dialogue),
                               !.current_speaker = match.speaker,
                               !.current_text = IF match.text # << >>
                                                THEN << match.text >> ELSE << >>]
               ELSE IF dialogue.current_speaker # ""
               THEN [st EXCEPT !.current_text = Append(dialogue.current_text, line)]
               ELSE st
    /\ UNCHANGED << paperVars, ttsVars, chunker >>

\* lines 172-175: the last speaker is flushed and the list is returned
ParseEnd ==
    /\ dialogue.pc = "loop"
    /\ dialogue.i > Len(dialogue.script)
    /\ dialogue' = [dialogue EXCEPT !.pc = "done", !.lines = FlushSpeaker(dialogue)]
    /\ UNCHANGED << paperVars, ttsVars, chunker >>

ParseNext ==
    \/ ParseLine
    \/ ParseEnd

TtsNext ==
    \/ GetPipeline
    \/ \E chunk \in Deltas : StreamDelta(chunk)
    \/ StreamEnd
    \/ SaveScript
    \/ SynthStart
    \/ \E k \in 1..Len(tts_futures) : SynthReturns(k)
    \/ \E k \in 1..Len(tts_futures) : SynthRaises(k)
    \/ CollectSegment
    \/ CollectRaises
    \/ Export
    \/ SplitScript
    \/ SynthParagraph
    \/ SynthParagraphRaises

PaperNext ==
    \/ ExtractFigures
    \/ StartPool
    \/ CleanSubmit
    \/ \E i \in 1..MaxChunks : ChunkReturns(i)
    \/ \E i \in 1..MaxChunks : ChunkRaises(i)
    \/ CleanFinish
    \/ \E p \in 1..MaxImages : FilterReturns(p)
    \/ \E p \in 1..MaxImages : FilterRaises(p)
    \/ SortFigures
    \/ RenameStep
    \/ RenameRaises
    \/ LeavePoolRaising
    \/ RenameDone
    \/ DescribeSubmit
    \/ \E i \in 1..MaxImages : DescReturns(i)
    \/ \E i \in 1..MaxImages : DescRaises(i)
    \/ TextReturns
    \/ TextRaises
    \/ SaveMarkdown

\* process_paper on a batch of PoolImages candidates of which at most MaxKept are
\* kept, for a text of at most PoolChunks chunks
PoolNext ==
    \/ ExtractMany
    \/ StartPool
    \/ CleanSubmit /\ chunks' <= PoolChunks
    \/ \E i \in 1..PoolChunks : ChunkReturns(i)
    \/ \E i \in 1..PoolChunks : ChunkRaises(i)
    \/ CleanFinish
    \/ \E p \in 1..PoolImages : FilterReturns(p) /\ Len(figure_paths') <= MaxKept
    \/ \E p \in 1..PoolImages : FilterRaises(p) /\ Len(figure_paths') <= MaxKept
    \/ SortFigures
    \/ RenameStep
    \/ RenameRaises
    \/ LeavePoolRaising
    \/ RenameDone
    \/ DescribeSubmit
    \/ \E i \in 1..MaxKept : DescReturns(i)
    \/ \E i \in 1..MaxKept : DescRaises(i)
    \/ TextReturns
    \/ TextRaises
    \/ SaveMarkdown

\* process_paper without descriptions on candidates of different suffixes, for a
\* text of at most PoolChunks chunks
RenameNext ==
    \/ ExtractMixed
    \/ StartPool
    \/ CleanSubmit /\ chunks' <= PoolChunks
    \/ \E i \in 1..PoolChunks : ChunkReturns(i)
    \/ \E i \in 1..PoolChunks : ChunkRaises(i)
    \/ CleanFinish
    \/ \E p \in 1..MaxImages : FilterReturns(p)
    \/ \E p \in 1..MaxImages : FilterRaises(p)
    \/ SortFigures
    \/ RenameStep
    \/ RenameRaises
    \/ LeavePoolRaising
    \/ RenameDone
    \/ DescribeSubmit
    \/ TextReturns
    \/ TextRaises
    \/ SaveMarkdown

\* tts.py is not called
TtsIdle ==
    /\ entry = "none"
    /\ tts_pc = "idle"
    /\ pipeline_loaded = FALSE
    /\ script = << >>
    /\ paragraphs = << >>
    /\ stream_left = 0
    /\ buffer = << >>
    /\ para_idx = 0
    /\ script_parts = << >>
    /\ tts_futures = << >>
    /\ collected = 0
    /\ audio_segments = << >>
    /\ script_file = NoScript
    /\ audio_file = NoFile
    /\ tts_error = ""
    /\ streamed = << >>
    /\ invocation = 0
    /\ abandoned = << >>
    /\ constructions = 0

\* process_paper is not called
PaperIdle ==
    /\ pc = "idle"
    /\ extract_figures = FALSE
    /\ describe_figures = FALSE
    /\ all_images = << >>
    /\ chunks = 0
    /\ clean_pc = "idle"
    /\ chunk_futures = NoFutures
    /\ text_future = [st |-> "none", val |-> << >>]
    /\ filter_futures = NoFutures
    /\ figure_paths = << >>
    /\ final_paths = << >>
    /\ desc_futures = NoFutures
    /\ figure_descriptions = << >>
    /\ pool_running = {}
    /\ pool_queue = << >>
    /\ img_dir = [p \in Paths |-> 0]
    /\ clean_text = << >>
    /\ markdown_file = NoFile
    /\ attempts = [u \in Units |-> 0]

\* process_paper (review.py)
Init == PaperInit /\ TtsIdle /\ chunker = NotChunking /\ dialogue = NotParsing /\ no_audio = FALSE

Next == PaperNext

Spec == Init /\ [][Next]_vars

\* create_podcast and generate_audio (tts.py)
TtsSpecInit == TtsInit /\ PaperIdle /\ chunker = NotChunking /\ dialogue = NotParsing

TtsSpec == TtsSpecInit /\ [][TtsNext]_vars

\* process_paper with figures, on more candidates than the pool has workers
PoolInit == Init /\ extract_figures /\ describe_figures

PoolSpec == PoolInit /\ [][PoolNext]_vars

\* the same runs when every remote call that was started returns or raises and every
\* thread that can take its next step takes it
PoolLiveSpec == PoolInit /\ [][PoolNext]_vars /\ WF_vars(PoolNext)

\* the renumbering of candidates of different suffixes
RenameInit == Init /\ extract_figures /\ ~describe_figures

RenameSpec == RenameInit /\ [][RenameNext]_vars

\* _chunk_text (review.py)
ChunkInit == ChunkTextInit /\ PaperIdle /\ TtsIdle /\ no_audio = FALSE /\ dialogue = NotParsing

ChunkSpec == ChunkInit /\ [][ChunkNext]_vars

\* step 5 of the command line (cli.py), with and without --no-audio
CliInit == TtsIdle /\ PaperIdle /\ chunker = NotChunking /\ dialogue = NotParsing /\ no_audio \in BOOLEAN

CliNext ==
    \/ CliMain
    \/ GenerateScript
    \/ GetPipeline
    \/ \E chunk \in Deltas : StreamDelta(chunk)
    \/ StreamEnd
    \/ SaveScript
    \/ SynthStart
    \/ \E k \in 1..Len(tts_futures) : SynthReturns(k)
    \/ \E k \in 1..Len(tts_futures) : SynthRaises(k)
    \/ CollectSegment
    \/ CollectRaises
    \/ Export

CliSpec == CliInit /\ [][CliNext]_vars

\* parse_dialogue (paper_podcast/tts.py)
ParseSpecInit ==
    ParseInit /\ PaperIdle /\ TtsIdle /\ chunker = NotChunking /\ no_audio = FALSE

ParseSpec == ParseSpecInit /\ [][ParseNext]_vars

\* a process that calls create_podcast several times
SessionInit == TtsSpecInit /\ entry = "create_podcast"

SessionNext ==
    \/ GetPipeline
    \/ \E chunk \in Deltas : StreamDelta(chunk)
    \/ StreamEnd
    \/ SaveScript
    \/ SynthStart
    \/ \E k \in 1..Len(tts_futures) : SynthReturns(k)
    \/ \E k \in 1..Len(tts_futures) : SynthRaises(k)
    \/ CollectSegment
    \/ CollectRaises
    \/ Export
    \/ InvokeAgain
    \/ \E e \in 1..Len(abandoned) : AbandonedStart(e)
    \/ \E e \in 1..Len(abandoned) : AbandonedEnds(e)

SessionSpec == SessionInit /\ [][SessionNext]_vars

\* one create_podcast call in which every synthesis call returns
PodcastNext ==
    \/ GetPipeline
    \/ \E chunk \in Deltas : StreamDelta(chunk)
    \/ StreamEnd
    \/ SaveScript
    \/ SynthStart
    \/ \E k \in 1..Len(tts_futures) : SynthReturns(k)
    \/ CollectSegment
    \/ Export

\* the stream ends, every synthesis call that was started returns and every thread
\* that can take its next step takes it
PodcastLiveSpec == SessionInit /\ [][PodcastNext]_vars /\ WF_vars(PodcastNext)

\* ================================================================== claims
\* ---- helpers of the statements
Range(s) == { s[j] : j \in 1..Len(s) }

\* the candidates (discovery positions) that are not classified as an artifact
IsArtifact(f) == f.st = "ok" /\ f.val = FALSE
Survivors == { p \in 1..Len(filter_futures) : ~IsArtifact(filter_futures[p]) }
\* the rank of survivor p among the survivors, by discovery position
Rank(p) == Cardinality({ q \in Survivors : q <= p })

Renumbered == pc \in {"describe", "descriptions", "insert", "done", "raised"}

\* clean(chunk_i), clean(chunk_i+1), ... joined by a blank line, as a sequential
\* run would produce them
RECURSIVE SequentialDocument(_)
SequentialDocument(i) ==
    IF i > chunks THEN << >>
    ELSE IF i = chunks THEN chunk_futures[i].val
    ELSE chunk_futures[i].val \o << BlankLine >> \o SequentialDocument(i + 1)

AllChunksSucceeded ==
    /\ chunks >= 1
    /\ \A i \in 1..chunks : chunk_futures[i].st = "ok"

SomeChunkFailed == \E i \in 1..chunks : chunk_futures[i].st = "err"

\* C1: when every chunk call succeeded, clean_paper_text returns the cleaned chunks
\* joined by a blank line in index order, whatever the order the calls ended in.
C1_OrderedDocument ==
    (clean_pc = "ended" /\ AllChunksSucceeded) =>
        /\ text_future.st = "ok"
        /\ text_future.val = SequentialDocument(1)

C1_Witness ==
    /\ clean_pc = "ended"
    /\ chunks >= 2
    /\ AllChunksSucceeded
    /\ text_future.st = "ok"

\* C2: once the rename loop has ended, the i-th survivor by discovery position is
\* figure_i: the list of figures has one entry per survivor, entry i is named
\* figure_<i> and holds the file of the survivor of rank i.
C2_StableNumbering ==
    (Renumbered /\ all_images # << >>) =>
        /\ Len(figure_paths) = Cardinality(Survivors)
        /\ \A i \in 1..Len(figure_paths) : figure_paths[i].n = i
        /\ \A p \in Survivors : img_dir[figure_paths[Rank(p)]] = p

C2_Witness ==
    /\ Renumbered
    /\ Len(all_images) = 3
    /\ Survivors = {1, 3}
    /\ figure_paths = << Path(1, "png"), Path(2, "png") >>

\* C5: when a chunk call has failed, clean_paper_text ends by raising, and
\* process_paper never reaches the point where paper.md is written: the file does
\* not exist and the run can only end by raising.
C5_FailFastCleaning ==
    SomeChunkFailed =>
        /\ clean_pc = "ended" => text_future.st = "err"
        /\ markdown_file = NoFile
        /\ pc \notin {"insert", "done"}

C5_Witness ==
    /\ pc = "raised"
    /\ chunks = 2
    /\ chunk_futures[1].st = "ok"
    /\ chunk_futures[2].st = "err"
    /\ markdown_file = NoFile

\* the positions of the "### Figure n" headings of a text
HeadingPositions(md) == { j \in 1..Len(md) : md[j].k = "heading" }

\* C6 (as claimed): in paper.md the block headed "Figure n" carries the image of
\* figure_n and the description (or placeholder) generated for figure n.
C6_BlocksMatchFigures ==
    (pc = "done" /\ figure_descriptions # << >>) =>
        \A j \in HeadingPositions(markdown_file) :
            LET n == markdown_file[j].n
            IN  /\ j + 2 <= Len(markdown_file)
                /\ markdown_file[j + 1] = ImageRef(figure_paths[n])
                /\ markdown_file[j + 2] \in {DescriptionOf(n), Placeholder(n)}

RECURSIVE Count(_, _)
Count(md, tok) ==
    IF md = << >> THEN 0
    ELSE (IF Head(md) = tok THEN 1 ELSE 0) + Count(Tail(md), tok)

\* the text with the tokens first..last removed
Without(md, first, last) == SubSeq(md, 1, first - 1) \o SubSeq(md, last + 1, Len(md))

\* C7 (as claimed): when a figure was described, the figures block is in paper.md
\* exactly once, right before the References heading when the cleaned text has one
\* and at the very end otherwise, and the rest of the text is the cleaned text.
C7_FiguresBlockOnce ==
    (pc = "done" /\ figure_descriptions # << >>) =>
        LET block == FiguresSection(figure_descriptions, figure_paths)
            first == CHOOSE j \in 1..Len(markdown_file) :
                        /\ markdown_file[j] = BlankLine
                        /\ j < Len(markdown_file)
                        /\ markdown_file[j + 1] = FiguresHeader
            last == first + Len(block) - 1
        IN  /\ Count(markdown_file, FiguresHeader) = 1
            /\ last <= Len(markdown_file)
            /\ SubSeq(markdown_file, first, last) = block
            /\ Without(markdown_file, first, last) = clean_text
            /\ IF Contains(clean_text, References)
               THEN last < Len(markdown_file) /\ markdown_file[last + 1] = References
               ELSE last = Len(markdown_file)

FilterFailed(p) == filter_futures[p].st = "err"

\* C8: a candidate whose classification raised is kept: its file stays in the image
\* directory, it is in the list of figures (under its own path until the renaming,
\* under its number afterwards); the loop goes on to the other candidates, so every
\* classification is resolved before the renaming, and process_paper raises only
\* when the cleaning failed.
C8_ClassificationFailOpen ==
    /\ \A p \in 1..Len(filter_futures) :
         FilterFailed(p) =>
             /\ \E q \in Paths : img_dir[q] = p
             /\ pc = "filter" => all_images[p] \in Range(figure_paths)
             /\ Renumbered => img_dir[figure_paths[Rank(p)]] = p
    /\ pc \notin {"start", "pool", "filter"} =>
         \A p \in 1..Len(filter_futures) : IsDone(filter_futures[p])
    /\ pc = "raised" => text_future.st = "err"

C8_Witness ==
    /\ pc = "done"
    /\ Len(filter_futures) = 3
    /\ IsArtifact(filter_futures[1])
    /\ FilterFailed(2)
    /\ filter_futures[3].st = "ok"
    /\ img_dir[Path(1, "png")] = 2

\* the value stored under key in a dict
Lookup(d, key) == (CHOOSE j \in 1..Len(d) : d[j].key = key)

HasKey(d, key) == \E j \in 1..Len(d) : d[j].key = key

\* C9: when the description call of figure n raised, the description recorded for
\* figure n is the placeholder that carries n; the other descriptions are recorded
\* all the same (after the loop every figure has its entry, a successful call its
\* returned text), and process_paper raises only when the cleaning failed.
C9_DescriptionFailOpen ==
    /\ \A n \in 1..Len(desc_futures) :
         /\ desc_futures[n].st = "err" =>
              /\ HasKey(figure_descriptions, FigureKey(n))
              /\ figure_descriptions[Lookup(figure_descriptions, FigureKey(n))].val
                   = Placeholder(n)
         /\ desc_futures[n].st = "ok" =>
              /\ HasKey(figure_descriptions, FigureKey(n))
              /\ figure_descriptions[Lookup(figure_descriptions, FigureKey(n))].val
                   = desc_futures[n].val
    /\ pc \in {"insert", "done", "raised"} =>
         \A n \in 1..Len(desc_futures) : IsDone(desc_futures[n])
    /\ pc = "raised" => text_future.st = "err"

C9_Witness ==
    /\ pc = "done"
    /\ Len(desc_futures) = 3
    /\ desc_futures[1].st = "ok"
    /\ desc_futures[2].st = "err"
    /\ desc_futures[3].st = "ok"

\* ---- create_podcast, generate_audio
\* the jobs whose samples are in an audio buffer, in buffer order
RECURSIVE AudioJobs(_)
AudioJobs(samples) ==
    IF samples = << >> THEN << >>
    ELSE (IF Head(samples).k = "audio" THEN << Head(samples).n >> ELSE << >>)
         \o AudioJobs(Tail(samples))

\* the jobs (paragraph numbers, in emission order) first.. whose synthesis returned
\* a non-empty segment
RECURSIVE NonEmptyJobs(_)
NonEmptyJobs(first) ==
    IF first > para_idx THEN << >>
    ELSE (IF \E k \in 1..Len(tts_futures) :
                /\ tts_futures[k].job = first
                /\ tts_futures[k].st = "ok"
                /\ tts_futures[k].val # EmptySegment
          THEN << first >> ELSE << >>)
         \o NonEmptyJobs(first + 1)

\* C3: the audio create_podcast writes holds the non-empty segments in the order
\* the paragraphs were emitted, whenever the synthesis jobs ended.
C3_AudioInEmissionOrder ==
    (entry = "create_podcast" /\ tts_pc = "done") =>
        AudioJobs(audio_file) = NonEmptyJobs(1)

C3_Witness ==
    /\ entry = "create_podcast"
    /\ tts_pc = "done"
    /\ Len(AudioJobs(audio_file)) >= 2
    /\ Len(AudioJobs(audio_file)) < para_idx

IsAudio(x) == x.k = "audio"
IsPause(x) == x.k = "pause"

\* C4: in the assembled audio every segment is followed by exactly one silence, the
\* last one too, and every silence follows a segment: there are as many silences as
\* non-empty segments.  An empty segment adds nothing and the run goes on: the
\* function raises "no audio" only when no segment at all was appended.
C4_OneSilencePerSegment ==
    LET samples == Combined(audio_segments)
    IN  /\ \A j \in 1..Len(samples) :
             /\ IsAudio(samples[j]) => j < Len(samples) /\ IsPause(samples[j + 1])
             /\ IsPause(samples[j]) => j > 1 /\ IsAudio(samples[j - 1])
        /\ Len(SelectSeq(samples, IsPause)) = Len(SelectSeq(samples, IsAudio))
        /\ entry = "create_podcast" =>
             \A k \in 1..collected :
                 tts_futures[k].val = EmptySegment <=>
                     ~(\E j \in 1..Len(samples) : samples[j] = Audio(tts_futures[k].job))
        /\ tts_error = NoAudioError => audio_segments = << >>
        /\ tts_pc = "done" => audio_file = samples

C4_Witness ==
    /\ entry = "create_podcast"
    /\ tts_pc = "done"
    /\ Len(tts_futures) = 3
    /\ tts_futures[1].val # EmptySegment
    /\ tts_futures[2].val = EmptySegment
    /\ tts_futures[3].val # EmptySegment
    /\ Len(audio_file) = 4

\* C10: a run of create_podcast or generate_audio in which no paragraph gave a
\* non-empty segment (with or without paragraphs) ends by raising and writes no
\* audio file; "no audio" is raised only in such a run.
C10_NoAudioFails ==
    /\ tts_pc = "done" => AudioJobs(audio_file) # << >>
    /\ tts_pc # "done" => audio_file = NoFile
    /\ tts_error = NoAudioError =>
         /\ tts_pc = "raised"
         /\ audio_segments = << >>
         /\ entry = "create_podcast" =>
              \A k \in 1..Len(tts_futures) :
                  tts_futures[k].st = "ok" /\ tts_futures[k].val = EmptySegment
    /\ (tts_pc \in {"done", "raised"} /\ tts_error # SynthError /\ audio_segments = << >>) =>
         tts_error = NoAudioError

C10_Witness ==
    /\ entry = "create_podcast"
    /\ tts_pc = "raised"
    /\ tts_error = NoAudioError
    /\ Len(tts_futures) >= 2
    /\ audio_file = NoFile

\* the file of candidate p is in the image directory, under whatever name
FileExists(p) == \E q \in Paths : img_dir[q] = p

\* the rename loop has begun: the thread is in it or has renamed a file
RenameBegun == pc = "rename" \/ final_paths # << >>

PaperEnded == pc \in {"done", "raised", "failed"}

\* every survivor is under the name it was extracted to
NotRenumbered == \A p \in Survivors : img_dir[all_images[p]] = p

\* every survivor is under its final name figure_<rank>
FullyRenumbered == \A p \in Survivors : img_dir[NewPath(Rank(p), all_images[p])] = p

\* C12 (as claimed): whenever process_paper returns or raises, the image directory is
\* not renumbered at all or completely renumbered.
C12_AllOrNothing == PaperEnded => (NotRenumbered \/ FullyRenumbered)

\* C13: in a create_podcast run at most one synthesis job is executing; the jobs are
\* numbered in emission order and a job has started only when every job emitted
\* before it has completed, so the jobs complete in submission order.
C13_OneJobAtATime ==
    entry = "create_podcast" =>
        /\ Cardinality(InFlight(tts_futures)) <= 1
        /\ \A k \in 1..Len(tts_futures) :
             /\ tts_futures[k].job = k
             /\ tts_futures[k].st # "pending" =>
                  \A j \in 1..(k - 1) : IsDone(tts_futures[j])

C13_Witness ==
    /\ entry = "create_podcast"
    /\ tts_pc = "streaming"
    /\ Len(tts_futures) = 3
    /\ IsDone(tts_futures[1])
    /\ tts_futures[2].st = "running"
    /\ tts_futures[3].st = "pending"

\* the synthesis calls executing on the module's pipeline: those of the running call
\* and those of the executors earlier calls left behind
RECURSIVE AbandonedInFlight(_)
AbandonedInFlight(executors) ==
    IF executors = << >> THEN 0
    ELSE Cardinality(InFlight(Head(executors))) + AbandonedInFlight(Tail(executors))

EngineCalls == Cardinality(InFlight(tts_futures)) + AbandonedInFlight(abandoned)

\* C14 (as claimed): over a sequence of create_podcast calls of one process, calls
\* that raised included, at most one synthesis call is in flight on the shared
\* pipeline.
C14_EngineSerialized == EngineCalls <= 1

\* create_podcast has consumed the whole stream and flushed the buffer
StreamConsumed ==
    /\ entry = "create_podcast"
    /\ tts_pc \in {"save_script", "collect", "done", "raised"}

\* the paragraphs create_podcast has submitted are the stripped non-empty pieces of
\* the text delivered, one job each
SubmittedPieces ==
    /\ script_parts = StripNonEmpty(Split(streamed))
    /\ Len(tts_futures) = Len(script_parts)

\* C15 (as claimed): for every text and every cut into deltas the paragraphs
\* submitted are the stripped non-empty pieces of the whole text, and they are the
\* list generate_audio computes from that text.
C15_SameAsGenerateAudio ==
    StreamConsumed =>
        /\ SubmittedPieces
        /\ script_parts = ScriptParagraphs(streamed)

\* C15 (amended): the paragraphs submitted are the stripped non-empty pieces of the
\* whole text for every cut into deltas; they are the list of generate_audio when
\* the text holds a character that is not whitespace; for an empty or
\* whitespace-only text create_podcast submits nothing and generate_audio computes
\* the list of one empty paragraph.
C15_SameUnlessBlank ==
    StreamConsumed =>
        /\ SubmittedPieces
        /\ Strip(streamed) # << >> => script_parts = ScriptParagraphs(streamed)
        /\ Strip(streamed) = << >> =>
             /\ script_parts = << >>
             /\ ScriptParagraphs(streamed) = << << >> >>

\* the boundary was cut in two deltas: "a", "\n", "\n", "a"
C15_Witness ==
    /\ StreamConsumed
    /\ stream_left = 0
    /\ streamed = << "a", Newline, Newline, "a" >>
    /\ script_parts = << << "a" >>, << "a" >> >>

\* the pieces of a text that a blank-line boundary terminates: all but the last
CompletePieces(s) == SubSeq(Split(s), 1, Len(Split(s)) - 1)

\* C16: between two deltas every paragraph whose terminating boundary has been
\* delivered is already submitted (nothing complete waits in the buffer), whatever
\* the synthesis jobs are doing; the submission does not wait for a job, so the
\* next delta can be consumed while jobs are queued or running.
C16_SubmittedAtOnce ==
    (entry = "create_podcast" /\ tts_pc = "streaming") =>
        /\ script_parts = StripNonEmpty(CompletePieces(streamed))
        /\ Len(tts_futures) = Len(script_parts)
        /\ ~HasBoundary(buffer)
        /\ stream_left > 0 => ENABLED StreamDelta(<< "a", Newline, Newline >>)

\* the stream is still delivering: paragraph 1 is synthesized, paragraph 2 is being
\* synthesized and paragraph 3, completed by the same delta as paragraph 2, is queued
C16_Witness ==
    /\ entry = "create_podcast"
    /\ tts_pc = "streaming"
    /\ stream_left = 1
    /\ streamed = << "a", Newline, Newline, "a", Newline, Newline, "a", Newline, Newline >>
    /\ Len(tts_futures) = 3
    /\ tts_futures[1].st = "ok"
    /\ tts_futures[2].st = "running"
    /\ tts_futures[3].st = "pending"

\* the paths that hold a file
Files == { q \in Paths : img_dir[q] # 0 }

Packed(chunk) == Len(Split(chunk))

\* C18 (as claimed): a chunk that packs two or more paragraphs is, separators
\* counted, at most max_chars long; only a chunk of a single paragraph may be longer.
C18_PackedWithinThreshold ==
    chunker.pc = "done" =>
        \A j \in 1..Len(chunker.chunks) :
            Packed(chunker.chunks[j]) >= 2 => Len(chunker.chunks[j]) <= chunker.max_chars

\* ---- the shared pool
\* the classification and description calls that are executing
RemoteCalls == { t \in pool_running : t.kind \in {"filter", "desc"} }

\* C19: at most 8 classification and description calls execute at the same time,
\* also when the batch has more candidates than that; the others wait in the queue
\* of the pool.
C19_AtMostEightCalls ==
    /\ Cardinality(RemoteCalls) <= MAX_WORKERS
    /\ Cardinality(pool_running) <= MAX_WORKERS
    /\ pool_queue # << >> => Cardinality(pool_running) = MAX_WORKERS

\* clean_paper_text has ended: eight classifications run, the ninth waits
C19_Witness ==
    /\ pc = "filter"
    /\ Len(all_images) > MAX_WORKERS
    /\ Cardinality(RemoteCalls) = MAX_WORKERS
    /\ pool_queue # << >>

\* ---- units of work
\* C20: in a process_paper run no unit is submitted more than once, so a failed unit
\* is not retried; once submitted, every chunk has been submitted for cleaning
\* exactly once and every candidate for classification exactly once; with
\* descriptions enabled every numbered figure is submitted for description exactly
\* once, and nothing else is submitted.
C20_EveryUnitOnce ==
    /\ \A u \in Units : attempts[u] <= 1
    /\ \A i \in 1..MaxChunks :
         attempts[Task("chunk", i)] = IF clean_pc # "idle" /\ i <= chunks THEN 1 ELSE 0
    /\ \A p \in 1..MaxPath :
         attempts[Task("filter", p)] =
             IF pc \notin {"start", "pool"} /\ p <= Len(all_images) THEN 1 ELSE 0
    /\ \A i \in 1..MaxPath :
         attempts[Task("desc", i)] =
             IF /\ pc \in {"descriptions", "insert", "done", "raised"}
                /\ describe_figures
                /\ i <= Len(figure_paths)
             THEN 1 ELSE 0

\* a run that ended with a failed classification and a failed description
C20_Witness ==
    /\ pc = "done"
    /\ chunks = 2
    /\ Len(all_images) = 3
    /\ FilterFailed(2)
    /\ IsArtifact(filter_futures[3])
    /\ Len(desc_futures) = 2
    /\ desc_futures[1].st = "err"
    /\ attempts[Task("desc", 2)] = 1
    /\ attempts[Task("desc", 3)] = 0

\* ---- the command line
\* C21: with --no-audio the command line calls generate_script and saves the script
\* only: the synthesis engine is never initialized, no synthesis job is submitted and
\* no audio file is written; without the flag create_podcast is called, and when it
\* returns it has written the script and the audio.
C21_NoAudioScriptOnly ==
    /\ no_audio =>
         /\ tts_pc # "idle" => entry = "generate_script"
         /\ ~pipeline_loaded
         /\ tts_futures = << >>
         /\ audio_segments = << >>
         /\ audio_file = NoFile
         /\ tts_pc = "done" => script_file = script /\ script_file # NoScript
    /\ ~no_audio =>
         /\ tts_pc # "idle" => entry = "create_podcast"
         /\ tts_pc = "done" =>
              /\ script_file = JoinParts(script_parts)
              /\ AudioJobs(audio_file) # << >>
              /\ pipeline_loaded

\* the script of two paragraphs has been saved under --no-audio
C21_Witness ==
    /\ no_audio
    /\ tts_pc = "done"
    /\ script_file = << "a", Newline, Newline, "a", Newline, Newline >>
    /\ audio_file = NoFile

\* ---- parse_dialogue
\* the line at position i of the script, stripped
DLine(i) == Strip(dialogue.script[i])

\* the line at position i opens with a speaker label
IsLabel(i) == DLine(i) # << >> /\ Head(DLine(i)) \in {"HOST_A:", "HOST_B:"}

\* the position of the nearest label at or before position i (0: none)
Owner(i) ==
    LET ps == { p \in 1..i : IsLabel(p) }
    IN  IF ps = {} THEN 0 ELSE CHOOSE p \in ps : \A q \in ps : q <= p

\* what line i contributes to the text of its pair: the rest of a label line, the
\* whole of an unlabelled line
Contribution(i) == IF IsLabel(i) THEN LStrip(Tail(DLine(i))) ELSE DLine(i)

\* the contributions of the lines owned by the label at position p, in script order
BlockOf(p) ==
    LET n == Len(dialogue.script)
        own == SelectSeq([i \in 1..n |-> i],
                         LAMBDA i : Owner(i) = p /\ Contribution(i) # << >>)
    IN  [j \in 1..Len(own) |-> Contribution(own[j])]

\* the pairs the script describes: one per label that owns some text, in script order
ExpectedPairs ==
    LET n == Len(dialogue.script)
        labels == SelectSeq([i \in 1..n |-> i],
                            LAMBDA i : IsLabel(i) /\ BlockOf(i) # << >>)
    IN  [j \in 1..Len(labels) |->
            [speaker |-> IF Head(DLine(labels[j])) = "HOST_A:" THEN "HOST_A" ELSE "HOST_B",
             text |-> JoinText(BlockOf(labels[j]))]]

\* C22: every pair parse_dialogue returns has a speaker in {HOST_A, HOST_B} and a
\* non-empty text; the pairs are in script order; every non-blank unlabelled line
\* after a label is in the pair of the nearest preceding label and in no other; the
\* lines before the first label are in no pair.
C22_PairsFollowLabels ==
    /\ \A j \in 1..Len(dialogue.lines) :
         /\ dialogue.lines[j].speaker \in {"HOST_A", "HOST_B"}
         /\ dialogue.lines[j].text # << >>
         /\ ~IsSpace(Head(dialogue.lines[j].text))
    /\ dialogue.pc = "done" => dialogue.lines = ExpectedPairs

\* an unlabelled line before the first label, a label with text, a continuation line
\* and a second label: two pairs
C22_Witness ==
    /\ dialogue.pc = "done"
    /\ dialogue.script = << << "w" >>, << "HOST_A:", " ", "w" >>, << "HOST_C:", "w" >>,
                            << " ", "HOST_B:", "w" >> >>
    /\ dialogue.lines = << [speaker |-> "HOST_A", text |-> << "w", " ", "HOST_C:", "w" >>],
                           [speaker |-> "HOST_B", text |-> << "w" >>] >>

\* ---- _chunk_text, round trip
\* the paragraphs of the chunks cs, chunk after chunk
RECURSIVE ParagraphsOf(_)
ParagraphsOf(cs) == IF cs = << >> THEN << >> ELSE Split(Head(cs)) \o ParagraphsOf(Tail(cs))

\* C23: for every text and threshold _chunk_text returns at least one chunk, the
\* chunks joined with a blank line are the text, and the paragraphs of the chunks,
\* chunk after chunk, are the paragraphs of the text: none is split, dropped,
\* duplicated or moved.
C23_ChunksRejoin ==
    chunker.pc = "done" =>
        /\ Len(chunker.chunks) >= 1
        /\ JoinParts(chunker.chunks) = chunker.text
        /\ ParagraphsOf(chunker.chunks) = Split(chunker.text)

\* two paragraphs, the second opening with a newline, each in a chunk of its own
C23_Witness ==
    /\ chunker.pc = "done"
    /\ chunker.text = << "a", Newline, Newline, Newline, "a" >>
    /\ chunker.max_chars = 1
    /\ Len(chunker.chunks) = 2

\* ---- results waiting to be collected
\* the jobs whose segment has been returned and is not yet in audio_segments
Uncollected == { k \in 1..Len(tts_futures) : tts_futures[k].st = "ok" /\ k > collected }

\* C24: during create_podcast at most one returned segment waits to be appended to
\* audio_segments; returned segments do not pile up before they are collected.
C24_OneResultWaiting == entry = "create_podcast" => Cardinality(Uncollected) <= 1

\* ---- the engine singleton
\* a synthesis job of this call or of an earlier call has been submitted
SomeJobSubmitted ==
    \/ tts_futures # << >>
    \/ \E e \in 1..Len(abandoned) : abandoned[e] # << >>
    \/ entry = "generate_audio" /\ tts_pc = "synth"

\* C25: the engine is constructed at most once in a process, over all the calls; when
\* a synthesis job has been submitted the construction is over, so a construction
\* is never made by a job or while a job exists.
C25_ConstructedOnceBeforeJobs ==
    /\ constructions <= 1
    /\ pipeline_loaded <=> constructions = 1
    /\ SomeJobSubmitted => pipeline_loaded
    /\ tts_pc \notin {"idle", "start"} => pipeline_loaded

\* the second call has loaded the cached engine while a job of the first call is
\* still running
C25_Witness ==
    /\ invocation = 2
    /\ tts_pc = "streaming"
    /\ tts_futures # << >>
    /\ AbandonedInFlight(abandoned) = 1
    /\ constructions = 1

\* ---- script and jobs
\* C26: the paragraphs of the saved script are the paragraphs submitted for
\* synthesis, in the same order, one job per paragraph: job k was submitted with
\* paragraph k of the script, para_idx counts the submitted paragraphs, and the
\* segments collected are those of the jobs 1, 2, .. in this order.
C26_ScriptMatchesJobs ==
    entry = "create_podcast" =>
        /\ para_idx = Len(script_parts)
        /\ Len(tts_futures) = Len(script_parts)
        /\ \A k \in 1..Len(tts_futures) :
             /\ tts_futures[k].job = k
             /\ tts_futures[k].text = script_parts[k]
        /\ LET jobs == AudioJobs(Combined(audio_segments))
           IN  \A i \in 1..Len(jobs) :
                   /\ jobs[i] <= collected
                   /\ \A j \in 1..(i - 1) : jobs[j] < jobs[i]
        /\ tts_pc \in {"collect", "done", "raised"} =>
             StripNonEmpty(Split(script_file)) = script_parts

\* three paragraphs were saved and synthesized, the segment of job 2 was empty
C26_Witness ==
    /\ entry = "create_podcast"
    /\ tts_pc = "done"
    /\ Len(script_parts) = 3
    /\ AudioJobs(audio_file) = << 1, 3 >>

\* ---- failing chunks
\* the chunks whose cleaning call raised
FailedChunks == { i \in 1..chunks : chunk_futures[i].st = "err" }

\* C27: when chunk calls have failed, clean_paper_text raises the exception of the
\* failed chunk with the lowest index, whatever the order in which the calls ended.
C27_LowestFailingChunk ==
    (clean_pc = "ended" /\ FailedChunks # {}) =>
        \E i \in FailedChunks :
            /\ \A j \in FailedChunks : i <= j
            /\ text_future = Raised(ChunkError(i))

\* both chunks failed: the exception is that of chunk 1
C27_Witness ==
    /\ clean_pc = "ended"
    /\ FailedChunks = {1, 2}
    /\ text_future = Raised(ChunkError(1))

\* C28: when a chunk call fails no other chunk call is cancelled or skipped: every
\* chunk call is started when it is submitted, and when clean_paper_text raises
\* every chunk call has returned or raised.
C28_SiblingsFinish ==
    /\ clean_pc = "collecting" =>
         \A i \in 1..chunks : chunk_futures[i].st \in {"running", "ok", "err"}
    /\ (clean_pc = "ended" /\ text_future.st = "err") =>
         /\ Len(chunk_futures) = chunks
         /\ \A i \in 1..chunks :
              /\ IsDone(chunk_futures[i])
              /\ attempts[Task("chunk", i)] = 1

\* chunk 1 failed and chunk 2 was cleaned all the same
C28_Witness ==
    /\ clean_pc = "ended"
    /\ chunks = 2
    /\ chunk_futures[1].st = "err"
    /\ chunk_futures[2].st = "ok"
    /\ text_future = Raised(ChunkError(1))

\* ---- the cleaning result is awaited last
\* the image batch is finished: every classification and every description has
\* ended, no file of an artifact is left, every survivor has its final name
BatchFinished ==
    /\ Len(filter_futures) = Len(all_images)
    /\ \A q \in 1..Len(filter_futures) : IsDone(filter_futures[q])
    /\ \A q \in 1..Len(filter_futures) : IsArtifact(filter_futures[q]) => ~FileExists(q)
    /\ FullyRenumbered
    /\ Len(final_paths) = Cardinality(Survivors)
    /\ describe_figures => Len(desc_futures) = Len(figure_paths)
    /\ \A i \in 1..Len(desc_futures) : IsDone(desc_futures[i])
    /\ pool_running = {} /\ pool_queue = << >>

RenamePending == pc = "rename" /\ Len(final_paths) < Len(figure_paths)

\* C30: with the candidates extracted as figure_<p> by discovery position, whatever
\* the verdicts and the suffixes: the path the rename loop is about to rename a
\* figure to holds no file, so no survivor's file is overwritten and every survivor
\* keeps exactly one file; a survivor that already has its final name is left alone.
C30_TargetNeverOccupied ==
    /\ RenamePending =>
         LET i == Len(final_paths) + 1
             fig_path == figure_paths[i]
             new_path == NewPath(i, fig_path)
         IN  /\ img_dir[fig_path] # 0
             /\ fig_path # new_path => img_dir[new_path] = 0
    /\ pc \in {"rename", "rename_error", "failed", "describe", "descriptions", "insert",
               "done", "raised"} =>
         /\ \A q \in Survivors : Cardinality({ f \in Paths : img_dir[f] = q }) = 1
         /\ \A j \in 1..Len(final_paths) : img_dir[final_paths[j]] # 0

\* candidate 1 (png) keeps its name, candidate 2 (jpg) was deleted as an artifact,
\* candidate 3 (png) is about to be renamed to figure_2.png, which holds no file
C30_Witness ==
    /\ RenamePending
    /\ all_images = << Path(1, "png"), Path(2, "jpg"), Path(3, "png") >>
    /\ Survivors = {1, 3}
    /\ final_paths = << Path(1, "png") >>
    /\ figure_paths[2] = Path(3, "png")
    /\ img_dir[Path(2, "png")] = 0

\* ---- the script file
\* C31: script.txt is written when the stream has ended and before a result is
\* collected; so when create_podcast raises because no audio was produced, the
\* script is in the file and no audio file exists.
C31_ScriptSavedBeforeCollecting ==
    entry = "create_podcast" =>
        /\ script_file # NoScript => StreamConsumed /\ tts_pc # "save_script"
        /\ (collected > 0 \/ audio_segments # << >>) => script_file # NoScript
        /\ tts_pc \in {"collect", "done"} => script_file = JoinParts(script_parts)
        /\ (tts_pc = "raised" /\ tts_error = NoAudioError) =>
             /\ script_file = JoinParts(script_parts)
             /\ script_file # NoScript
             /\ audio_file = NoFile

\* two paragraphs whose segments were both empty: the call raised, the script is saved
C31_Witness ==
    /\ entry = "create_podcast"
    /\ tts_pc = "raised"
    /\ tts_error = NoAudioError
    /\ collected = 2
    /\ script_file = << "a", Newline, Newline, "a" >>
    /\ audio_file = NoFile

\* ---- a synthesis job that raises
\* C32: when the synthesis of paragraph k raises, create_podcast raises that
\* exception when the collecting loop reaches job k: the jobs before k were
\* collected, no segment of a later job is, no audio file is written and the call
\* never returns; the jobs queued behind k are not cancelled, the worker still
\* takes them.
C32_RaisesAtFailedJob ==
    entry = "create_podcast" =>
        /\ \A j \in 1..collected : tts_futures[j].st = "ok"
        /\ tts_pc = "done" => \A j \in 1..Len(tts_futures) : tts_futures[j].st = "ok"
        /\ (tts_pc = "raised" /\ tts_error = SynthError) =>
             LET k == collected + 1
             IN  /\ k <= Len(tts_futures)
                 /\ tts_futures[k].st = "err"
                 /\ \A i \in Range(AudioJobs(Combined(audio_segments))) : i < k
                 /\ audio_file = NoFile
                 /\ (/\ \E j \in 1..Len(tts_futures) : tts_futures[j].st = "pending"
                     /\ WorkerFree(tts_futures)) => ENABLED SynthStart

\* job 2 raised: the call raised with job 1 collected, and job 3 was synthesized
\* all the same
C32_Witness ==
    /\ entry = "create_podcast"
    /\ tts_pc = "raised"
    /\ tts_error = SynthError
    /\ collected = 1
    /\ Len(tts_futures) = 3
    /\ tts_futures[2].st = "err"
    /\ tts_futures[3].st = "ok"
    /\ AudioJobs(Combined(audio_segments)) = << 1 >>

\* ---- termination of process_paper
\* C33: when every remote call returns or raises, process_paper returns or raises,
\* also on a batch with more candidates than the pool has workers while the
\* cleaning task holds one of them: no task waits for a worker for ever.
C33_PaperTerminates == <>PaperEnded

\* a run on more candidates than workers has returned
C33_Witness ==
    /\ pc = "done"
    /\ Len(all_images) > MAX_WORKERS
    /\ clean_pc = "ended"
    /\ pool_running = {} /\ pool_queue = << >>

\* ---- termination of create_podcast
\* every job has returned a segment and the collecting loop has read them all
AllSynthesizedAndCollected ==
    /\ \A k \in 1..Len(tts_futures) : tts_futures[k].st = "ok"
    /\ collected = Len(tts_futures)

\* C34: when the stream ends and every synthesis call returns, every submitted
\* paragraph is synthesized, every job is collected, and create_podcast returns or
\* raises, however many paragraphs were queued behind a running job.
C34_PodcastTerminates ==
    <>(tts_pc \in {"done", "raised"} /\ StreamConsumed /\ AllSynthesizedAndCollected)

\* three paragraphs were synthesized and collected, and the call returned
C34_Witness ==
    /\ entry = "create_podcast"
    /\ tts_pc = "done"
    /\ Len(tts_futures) = 3
    /\ AllSynthesizedAndCollected
    /\ AudioJobs(audio_file) = << 1, 2, 3 >>

====
